---- MODULE Spec2Model ----
(***************************************************************************)
(* Plan normalisation and enrichment of video-be:                          *)
(*   src/plan_generation/make_plan.py          (Schema Normalizer)         *)
(*   src/python-be/plan_generation/enrich_plan.py (enrichment pipeline)    *)
(*                                                                         *)
(* Times are integers counted in ticks of 0.1 ms (TicksPerSecond ticks to  *)
(* the second), so that round(x, 3) and round(x, 2) of the source are real *)
(* conversions: Round3 moves a value to a whole millisecond, Round2 to a   *)
(* whole centisecond.                                                      *)
(***************************************************************************)
EXTENDS Integers, Sequences, FiniteSets, TLC

VARIABLES
    pc,          \* which pass of the run has completed
    segments,    \* plan["segments"]
    highlights,  \* plan["highlights"]
    meta,        \* plan["meta"]
    prior,       \* the plan as it was handed to the pass that ran last
    raw,         \* the raw value handed to the normalizer
    ret,         \* the value a normalizer function returned
    outcome,     \* how the last call ended: a return or the exception raised
    scene_map,   \* scene_map["segments"], the transcript entries of the run
    highlight_windows,  \* what snap_highlights_to_transcript returned
    motion_rules,  \* the motion rules file of the run
    sfx_catalog  \* the SFX catalog file of the run

vars == <<pc, segments, highlights, meta, prior, raw, ret, outcome, scene_map,
          highlight_windows, motion_rules, sfx_catalog>>

(***************************************************************************)
(* Arithmetic helpers                                                      *)
(***************************************************************************)
TicksPerSecond == 10000

Max(a, b) == IF a >= b THEN a ELSE b
Min(a, b) == IF a <= b THEN a ELSE b

\* round(x, ndigits) of Python for a value x >= 0 held in ticks: the nearest
\* multiple of `unit`, an exact half going to the even multiple.
RoundTo(x, unit) ==
    LET q == x \div unit
        r == x % unit
    IN  IF 2 * r < unit THEN q * unit
        ELSE IF 2 * r > unit THEN (q + 1) * unit
        ELSE IF q % 2 = 0 THEN q * unit ELSE (q + 1) * unit

Round2(x) == RoundTo(x, 100)
Round3(x) == RoundTo(x, 10)

Last(s) == s[Len(s)]
Front(s) == SubSeq(s, 1, Len(s) - 1)

\* The sort key `item.get("start", 0.0) or 0.0` of the highlight lists.
StartKey(h) == IF h.numeric THEN h.start ELSE 0

\* Python's order on tuples of numbers: lexicographic.
RECURSIVE TupleLeq(_, _)
TupleLeq(a, b) ==
    IF a = <<>> THEN TRUE
    ELSE IF b = <<>> THEN FALSE
    ELSE IF Head(a) < Head(b) THEN TRUE
    ELSE IF Head(a) > Head(b) THEN FALSE
    ELSE TupleLeq(Tail(a), Tail(b))

\* list.sort / sorted with a key: a stable insertion sort of the pairs
\* [key, item], the key a tuple of numbers.
RECURSIVE InsertKeyed(_, _)
InsertKeyed(sorted, x) ==
    IF sorted = <<>> THEN <<x>>
    ELSE IF TupleLeq(Last(sorted).key, x.key) THEN Append(sorted, x)
    ELSE Append(InsertKeyed(Front(sorted), x), Last(sorted))

RECURSIVE SortKeyed(_)
SortKeyed(s) ==
    IF s = <<>> THEN <<>>
    ELSE InsertKeyed(SortKeyed(Front(s)), Last(s))

Items(keyed) == [i \in 1..Len(keyed) |-> keyed[i].item]

\* sorted(highlights, key=lambda item: item.get("start", 0.0) or 0.0)
SortByStart(hs) ==
    Items(SortKeyed([i \in 1..Len(hs) |-> [key |-> <<StartKey(hs[i])>>, item |-> hs[i]]]))

\* The words the raw texts are made of, each in its three spellings:
\* lower case, capitalised, upper case.
WordForms ==
    {<<"epic", "Epic", "EPIC">>, <<"launch", "Launch", "LAUNCH">>,
     <<"the", "The", "THE">>, <<"of", "Of", "OF">>, <<"is", "Is", "IS">>,
     <<"um", "Um", "UM">>, <<"2024", "2024", "2024">>,
     <<"key", "Key", "KEY">>, <<"theme", "Theme", "THEME">>,
     <<"overview", "Overview", "OVERVIEW">>, <<"insights", "Insights", "INSIGHTS">>,
     <<"focus", "Focus", "FOCUS">>, <<"spotlight", "Spotlight", "SPOTLIGHT">>,
     <<"framework", "Framework", "FRAMEWORK">>, <<"recap", "Recap", "RECAP">>,
     <<"summary", "Summary", "SUMMARY">>, <<"so", "So", "SO">>,
     <<"basically", "Basically", "BASICALLY">>, <<"day", "Day", "DAY">>,
     <<"x", "X", "X">>}

\* The names (of types and transitions) that are not spelled in lower case.
NameForms ==
    {<<"FADE", "fade">>, <<"Slide-Left", "slide-left">>,
     <<"sectionTitle", "sectiontitle">>, <<"SectionTitle", "sectiontitle">>,
     <<"noteBox", "notebox">>, <<"Dual", "dual">>, <<"Split", "split">>}

IsWord(s) == \E f \in WordForms : s \in {f[1], f[2], f[3]}
FormOf(w) == CHOOSE f \in WordForms : w \in {f[1], f[2], f[3]}

\* str.lower, str.capitalize, str.upper and str.isupper on one word or name.
Lower(s) ==
    IF \E p \in NameForms : p[1] = s THEN (CHOOSE p \in NameForms : p[1] = s)[2]
    ELSE IF IsWord(s) THEN FormOf(s)[1]
    ELSE s
Capitalize(w) == IF IsWord(w) THEN FormOf(w)[2] ELSE w
Upper(w) == IF IsWord(w) THEN FormOf(w)[3] ELSE w
IsUpper(w) == IsWord(w) /\ w = FormOf(w)[3] /\ w # FormOf(w)[1]
HasCase(w) == IsWord(w) /\ FormOf(w)[3] # FormOf(w)[1]

(***************************************************************************)
(* enforce_highlight_spacing (enrich_plan.py 1238-1305)                    *)
(*                                                                         *)
(* A highlight of the enrichment stage is a record                         *)
(*   id, type, start, duration, numeric, keyword, text, importance         *)
(* `numeric` is the isinstance(start/duration, (int, float)) test of the   *)
(* source; a highlight that fails it holds None there, which the sort key  *)
(* `item.get("start", 0.0) or 0.0` reads as 0.                             *)
(***************************************************************************)
MIN_GAP == 2000
MIN_DURATION == 6000
SHRINK_ROOM == 4000

\* (item.get("type") or "").lower() == "sectiontitle"
IsSection(h) == Lower(h.type) = "sectiontitle"

SetLastDuration(filtered, d) ==
    [filtered EXCEPT ![Len(filtered)].duration = d]

\* The while loop of lines 1262-1293: what `filtered` is when the loop ends.
RECURSIVE ResolveConflict(_, _)
ResolveConflict(filtered, current) ==
    IF filtered = <<>> THEN filtered
    ELSE
        LET previous == Last(filtered)
            start == current.start
            duration == Max(MIN_DURATION, current.duration)
            prev_start == previous.start
            prev_duration == Max(MIN_DURATION, previous.duration)
            prev_end == prev_start + prev_duration
            available == start - MIN_GAP - prev_start
            current_is_section == IsSection(current)
            previous_is_section == IsSection(previous)
        IN  IF start >= prev_end + MIN_GAP THEN filtered
            ELSE IF available >= MIN_DURATION
                THEN SetLastDuration(filtered, Round2(available))
            ELSE IF current_is_section /\ ~previous_is_section
                THEN ResolveConflict(Front(filtered), current)
            ELSE IF ~current_is_section /\ previous_is_section
                THEN filtered
            ELSE IF available > SHRINK_ROOM
                THEN SetLastDuration(filtered, Round2(Max(MIN_DURATION, available)))
            ELSE IF duration > prev_duration
                THEN ResolveConflict(Front(filtered), current)
            ELSE filtered

\* The for loop's turn without the re-check of lines 1295-1299: the current
\* highlight is appended whatever room the while loop left.
SpacingStepNoRecheck(filtered, current) ==
    IF ~current.numeric THEN filtered
    ELSE
        LET kept == ResolveConflict(filtered, current)
        IN  Append(kept, [current EXCEPT
                              !.start = Round2(current.start),
                              !.duration = Round2(Max(MIN_DURATION, current.duration))])

\* One turn of the for loop of lines 1254-1303.
SpacingStep(filtered, current) ==
    IF ~current.numeric THEN filtered
    ELSE
        LET kept == ResolveConflict(filtered, current)
            start == current.start
            duration == Max(MIN_DURATION, current.duration)
        IN  IF kept # <<>>
               /\ start < Last(kept).start + Last(kept).duration + MIN_GAP
            THEN kept
            ELSE Append(kept, [current EXCEPT !.start = Round2(start),
                                              !.duration = Round2(duration)])

RECURSIVE SpacingLoop(_, _)
SpacingLoop(filtered, ordered) ==
    IF ordered = <<>> THEN filtered
    ELSE SpacingLoop(SpacingStep(filtered, Head(ordered)), Tail(ordered))

enforce_highlight_spacing(hs) ==
    IF hs = <<>> THEN hs
    ELSE SpacingLoop(<<>>, SortByStart(hs))

(***************************************************************************)
(* prune_highlights (enrich_plan.py 1308-1371)                             *)
(*                                                                         *)
(* A highlight's `keyword` and `text` are the values of the source as the  *)
(* sequences of their [A-Za-z0-9]+ tokens, in lower case, <<>> for a key   *)
(* that is missing or empty.  Scores are integers counted in 1/ScoreUnit   *)
(* of a point, the unit in which `start * 0.05` of a start held in ticks   *)
(* is whole.                                                               *)
(***************************************************************************)
MAX_TOTAL_HIGHLIGHTS == 20

ScoreUnit == 200000
Points(n) == n * ScoreUnit

\* The words the texts of the enrichment stage are made of.
Vocabulary ==
    {"epic", "launch", "day", "of", "is", "2024", "strategy", "the", "um",
     "key", "theme", "overview", "insights", "focus", "spotlight",
     "framework", "recap", "summary", "data", "metrics", "plan", "dang",
     "ky", "kenh", "de", "nhan", "video", "moi", "memory"}

\* len(token)
TokenLen(t) ==
    CASE t \in {"of", "is", "um", "ky", "de"} -> 2
      [] t \in {"day", "the", "key", "moi"} -> 3
      [] t \in {"epic", "2024", "data", "plan", "dang", "kenh", "nhan"} -> 4
      [] t \in {"theme", "focus", "recap", "video"} -> 5
      [] t \in {"launch", "memory"} -> 6
      [] t \in {"summary", "metrics"} -> 7
      [] t \in {"strategy", "overview", "insights"} -> 8
      [] t \in {"spotlight", "framework"} -> 9

HasDigit(t) == t \in {"2024"}

\* _ALLOWED_CONNECTORS (enrich_plan.py 61), compared case-insensitively.
ALLOWED_CONNECTORS == {"of", "for", "and", "in", "on", "vs", "versus", "to", "with"}

\* The members of _COMMON_VERB_TOKENS (enrich_plan.py 62-163) that the
\* vocabulary can meet.
COMMON_VERB_TOKENS == {"be", "am", "is", "are", "was", "were", "do", "does",
                      "have", "has", "make", "know", "think", "now", "just"}

score_highlight(item) ==
    LET h_type == Lower(item.type)
        typed == CASE h_type = "sectiontitle" -> Points(120)
                   [] h_type = "icon" -> Points(40)
                   [] h_type = "cta" -> Points(80)
                   [] OTHER -> 0
        base == typed + (IF item.importance = "primary" THEN Points(12) ELSE 0)
        tokens == IF item.keyword # <<>> THEN item.keyword ELSE item.text
        IsContent(t) == t \notin ALLOWED_CONNECTORS
        content_tokens == SelectSeq(tokens, IsContent)
        IsNounLike(t) == t \notin COMMON_VERB_TOKENS
        noun_like == Len(SelectSeq(content_tokens, IsNounLike))
        duration == IF item.numeric THEN item.duration ELSE 0
        start == IF item.numeric THEN item.start ELSE 0
    IN  IF tokens = <<>> THEN base - Points(25)
        ELSE base
             + Min(Points(noun_like * 4), Points(20))
             + (IF \E i \in 1..Len(tokens) : HasDigit(tokens[i]) THEN Points(10) ELSE 0)
             + Min(duration, 5 * TicksPerSecond) * (ScoreUnit \div TicksPerSecond)
             + Max(0, Points(8) - start)
             + (IF Len(content_tokens) >= 2 THEN Points(10)
                ELSE IF Len(content_tokens) = 1
                     THEN (IF TokenLen(content_tokens[1]) >= 6 THEN Points(2)
                           ELSE 0 - Points(12))
                ELSE 0)

\* scored.sort(key=(-score, start, idx)); the ids of scored[:max_total].
RetainedIds(hs, max_total) ==
    LET scored == SortKeyed([i \in 1..Len(hs) |->
                     [key |-> <<0 - score_highlight(hs[i]),
                                IF hs[i].numeric THEN hs[i].start ELSE 0, i>>,
                      item |-> hs[i]]])
    IN  {scored[i].item.id : i \in 1..Min(max_total, Len(scored))}

prune_highlights(hs, max_total) ==
    IF hs = <<>> \/ Len(hs) <= max_total THEN hs
    ELSE LET retained == RetainedIds(hs, max_total)
             Kept(item) == item.id \in retained
         IN  SortByStart(SelectSeq(hs, Kept))

(***************************************************************************)
(* Raw JSON values (make_plan.py).  A field of a raw or normalised object  *)
(* is a tagged value:                                                      *)
(*   absent  the key is missing          null   the key holds None         *)
(*   num     a number, n ticks           str    a name, s                  *)
(*   text    free text, w its words      other  a non-empty list or object *)
(*   dict    a transition object, d its fields                             *)
(* A transition object has the fields of NoFields; typeIsStr and dirIsStr   *)
(* tell whether its type/style and direction/dir values are strings.       *)
(***************************************************************************)
NoFields == [type |-> "", style |-> "", direction |-> "", dir |-> "",
             typeIsStr |-> TRUE, dirIsStr |-> TRUE,
             hasDuration |-> FALSE, duration |-> 0,
             hasLength |-> FALSE, length |-> 0,
             hasIntensity |-> FALSE, intensity |-> 0,
             hasStrength |-> FALSE, strength |-> 0]

Value(t, n, s, w, d) == [t |-> t, n |-> n, s |-> s, w |-> w, d |-> d]
Absent == Value("absent", 0, "", <<>>, NoFields)
Null == Value("null", 0, "", <<>>, NoFields)
Num(n) == Value("num", n, "", <<>>, NoFields)
Str(s) == Value("str", 0, s, <<>>, NoFields)
Text(w) == Value("text", 0, "", w, NoFields)
Other == Value("other", 0, "", <<>>, NoFields)
Dict(d) == Value("dict", 0, "", <<>>, d)

\* Python's truth value of a field read with dict.get.
Truthy(v) ==
    CASE v.t \in {"absent", "null"} -> FALSE
      [] v.t = "num" -> v.n # 0
      [] v.t = "str" -> v.s # ""
      [] v.t = "text" -> v.w # <<>>
      [] OTHER -> TRUE

\* a or b
Or(a, b) == IF Truthy(a) THEN a ELSE b

\* dict.get(key, default): the default only when the key is missing.
Get(v, default) == IF v.t = "absent" THEN default ELSE v

\* ensure_float (make_plan.py 1038-1052): float(value), or the default when
\* float raises TypeError or ValueError.
ensure_float(v, default) == IF v.t = "num" THEN v.n ELSE default

(***************************************************************************)
(* normalize_transition (make_plan.py 1166-1244)                           *)
(***************************************************************************)
TRANSITION_TYPES == {"cut", "crossfade", "slide", "zoom", "scale", "rotate", "blur"}
TRANSITION_DIRECTIONS == <<"left", "right", "up", "down">>

DEFAULT_TRANSITION_DURATION == 6000
MIN_TRANSITION_DURATION == 1000
MAX_TRANSITION_DURATION == 30000
MIN_INTENSITY == 500
MAX_INTENSITY == 6000

\* `candidate in transition_type` for the slide-<direction> aliases.
DirectionInName(name) ==
    CASE name = "slide-left" -> "left" [] name = "slide-right" -> "right"
      [] name = "slide-up" -> "up" [] name = "slide-down" -> "down"

\* Lines 1195-1215: the alias table, then the default to cut.
TransitionAlias(name) ==
    LET mapped ==
            CASE name \in {"fade", "dissolve"} -> "crossfade"
              [] name \in {"slide-left", "slide-right", "slide-up", "slide-down"} -> "slide"
              [] name \in {"zoom-in", "zoom-out", "push", "push-in", "push-out",
                           "punch", "punch-in", "punch-out"} -> "zoom"
              [] name \in {"scale-up", "scale-down", "grow", "shrink"} -> "scale"
              [] name \in {"spin", "twist", "turn"} -> "rotate"
              [] name \in {"focus", "defocus", "dream", "soft-focus", "soften"} -> "blur"
              [] OTHER -> name
    IN  IF mapped \in TRANSITION_TYPES THEN mapped ELSE "cut"

\* The result is a value: null (None), a dict, or "raise" when .lower() is
\* called on a value that is not a string (AttributeError).
Raised == Value("raise", 0, "", <<>>, NoFields)

normalize_transition(value) ==
    IF value.t \in {"absent", "null"} THEN Null
    ELSE IF value.t \notin {"str", "dict"} THEN Null
    ELSE IF value.t = "dict" /\ (~value.d.typeIsStr \/ ~value.d.dirIsStr) THEN Raised
    ELSE
        LET isDict == value.t = "dict"
            f == value.d
            raw_type == IF isDict
                        THEN Lower(IF f.type # "" THEN f.type ELSE f.style)
                        ELSE Lower(value.s)
            raw_direction == IF isDict
                             THEN Lower(IF f.direction # "" THEN f.direction ELSE f.dir)
                             ELSE ""
            direction == IF raw_type \in {"slide-left", "slide-right", "slide-up", "slide-down"}
                         THEN DirectionInName(raw_type) ELSE raw_direction
            \* value.get("duration", value.get("length", 0.0))
            duration_raw == IF ~isDict THEN 0
                            ELSE IF f.hasDuration THEN f.duration
                            ELSE IF f.hasLength THEN f.length ELSE 0
            intensity_raw == IF ~isDict THEN 0
                             ELSE IF f.hasIntensity THEN f.intensity
                             ELSE IF f.hasStrength THEN f.strength ELSE 0
            transition_type == TransitionAlias(raw_type)
            duration_value ==
                Max(MIN_TRANSITION_DURATION,
                    Min(IF duration_raw > 0 THEN duration_raw
                        ELSE DEFAULT_TRANSITION_DURATION, MAX_TRANSITION_DURATION))
            hasIntensity == intensity_raw > 0
            intensity_value == Round3(Max(MIN_INTENSITY, Min(intensity_raw, MAX_INTENSITY)))
            withDirection ==
                transition_type = "slide"
                /\ \E i \in 1..Len(TRANSITION_DIRECTIONS) : TRANSITION_DIRECTIONS[i] = direction
            withIntensity ==
                transition_type \in {"zoom", "scale", "rotate", "blur"} /\ hasIntensity
        IN  IF transition_type = "cut" THEN Dict([NoFields EXCEPT !.type = "cut"])
            ELSE Dict([NoFields EXCEPT
                        !.type = transition_type,
                        !.hasDuration = TRUE,
                        !.duration = Round3(duration_value),
                        !.direction = IF withDirection THEN direction ELSE "",
                        !.hasIntensity = withIntensity,
                        !.intensity = IF withIntensity THEN intensity_value ELSE 0])

(***************************************************************************)
(* sanitize_highlight_text and format_section_title (make_plan.py).        *)
(* A text is the sequence of its words: the tokens of the pattern          *)
(* [A-Za-z0-9...]+ at line 356, joined by single spaces.                   *)
(***************************************************************************)
HIGHLIGHT_STOPWORDS ==
    {"a", "an", "the", "and", "or", "but", "so", "yet", "nor", "to", "of",
     "in", "on", "at", "by", "for", "from", "with", "without", "into",
     "onto", "about", "around", "over", "under", "after", "before",
     "between", "among", "through", "during", "within", "across", "against",
     "toward", "towards", "upon", "via", "this", "that", "these", "those",
     "there", "here", "then", "than", "when", "where", "while", "because",
     "since", "if", "though", "although", "unless", "until", "very",
     "really", "just", "maybe", "perhaps", "quite", "rather", "some", "any",
     "each", "every", "either", "neither", "both", "many", "much", "few",
     "little", "more", "most", "less", "least", "own", "same", "such", "i",
     "me", "my", "mine", "myself", "we", "us", "our", "ours", "ourselves",
     "you", "your", "yours", "yourself", "yourselves", "he", "him", "his",
     "himself", "she", "her", "hers", "herself", "it", "its", "itself",
     "they", "them", "their", "theirs", "themselves", "who", "whom", "whose",
     "which", "what", "whatever", "whoever", "whichever", "someone",
     "something", "anyone", "anything", "everyone", "everything", "not",
     "no", "yes", "ok", "okay", "uh", "um", "hmm", "ve", "re", "ll", "d",
     "s", "m"}
NORMALIZER_CONNECTORS == {"of", "for", "and", "&", "in", "on", "vs", "versus", "to", "with"}
NORMALIZER_VERB_TOKENS ==
    {"be", "am", "is", "are", "was", "were", "being", "been", "do", "does",
     "did", "doing", "have", "has", "had", "having", "will", "would", "shall",
     "should", "can", "could", "may", "might", "must", "need"}
FILLER_TOKENS == {"uh", "um", "ok", "okay", "hmm"}
MAX_NOUN_TOKENS == 6
SECTION_TITLE_SUFFIXES ==
    <<"Overview", "Insights", "Focus", "Spotlight", "Framework", "Recap", "Summary">>
SECTION_TITLE_FALLBACK == <<"Key", "Theme">>

IsConnector(w) == Lower(w) \in NORMALIZER_CONNECTORS
IsVerb(w) == Lower(w) \in NORMALIZER_VERB_TOKENS
NotStopword(w) == Lower(w) \notin HIGHLIGHT_STOPWORDS
NotFiller(w) == Lower(w) \notin FILLER_TOKENS

\* `a or b` on two lists (or two strings): the first unless it is empty.
OrElse(primary, fallback) == IF primary # <<>> THEN primary ELSE fallback

RECURSIVE TrimLeadingConnectors(_)
TrimLeadingConnectors(ws) ==
    IF ws # <<>> /\ IsConnector(Head(ws)) THEN TrimLeadingConnectors(Tail(ws)) ELSE ws

RECURSIVE TrimTrailingConnectors(_)
TrimTrailingConnectors(ws) ==
    IF ws # <<>> /\ IsConnector(Last(ws)) THEN TrimTrailingConnectors(Front(ws)) ELSE ws

\* _trim_edge_connectors (lines 241-247)
trim_edge_connectors(ws) == TrimTrailingConnectors(TrimLeadingConnectors(ws))

\* _has_future_content (lines 254-265): a later token that is not a verb.
has_future_content(ws, from) == \E j \in from..Len(ws) : ~IsVerb(ws[j])

\* The loop of _filter_tokens_to_noun_phrase (lines 267-281) from token idx.
RECURSIVE NounLoop(_, _, _)
NounLoop(ws, idx, selected) ==
    IF idx > Len(ws) THEN selected
    ELSE IF IsConnector(ws[idx])
         THEN NounLoop(ws, idx + 1,
                       IF selected # <<>> /\ has_future_content(ws, idx + 1)
                       THEN Append(selected, Lower(ws[idx])) ELSE selected)
         ELSE IF IsVerb(ws[idx]) THEN NounLoop(ws, idx + 1, selected)
         ELSE NounLoop(ws, idx + 1, Append(selected, ws[idx]))

\* The loop of lines 295-302: tokens up to the max_tokens-th content token;
\* content_count counts the content tokens before idx.
RECURSIVE LimitLoop(_, _, _, _)
LimitLoop(ws, idx, limited, content_count) ==
    IF idx > Len(ws) THEN limited
    ELSE IF ~IsConnector(ws[idx]) /\ content_count + 1 >= MAX_NOUN_TOKENS
         THEN Append(limited, ws[idx])
         ELSE LimitLoop(ws, idx + 1, Append(limited, ws[idx]),
                        IF IsConnector(ws[idx]) THEN content_count ELSE content_count + 1)

\* Lines 293-303: `_trim_edge_connectors(limited) or filtered`.
LimitTokens(filtered) ==
    OrElse(trim_edge_connectors(LimitLoop(filtered, 1, <<>>, 0)), filtered)

\* filter_tokens_to_noun_phrase(tokens, max_tokens=6) (lines 285-305)
filter_tokens_to_noun_phrase(ws) ==
    IF ws = <<>> THEN <<>>
    ELSE LimitTokens(OrElse(trim_edge_connectors(NounLoop(ws, 1, <<>>)), ws))

Prefix(ws, n) == SubSeq(ws, 1, Min(n, Len(ws)))

\* str.isupper of the joined phrase: no lower-case letter and one cased word.
PhraseIsUpper(ws) ==
    /\ \A i \in 1..Len(ws) : HasCase(ws[i]) => IsUpper(ws[i])
    /\ \E i \in 1..Len(ws) : HasCase(ws[i])

\* Lines 365-372 with the fallback tokens added to the chosen ones instead
\* of taking their place.
FallbackPhraseAppended(tokens, chosen, fallback_tokens) ==
    IF Len(chosen) >= 2 THEN chosen
    ELSE IF Len(fallback_tokens) >= 2 THEN chosen \o Prefix(fallback_tokens, 4)
    ELSE Prefix(tokens, 4)

\* Lines 365-372: fewer than two tokens left, fall back to the unfiltered ones.
FallbackPhrase(tokens, chosen, fallback_tokens) ==
    IF Len(chosen) >= 2 THEN chosen
    ELSE IF Len(fallback_tokens) >= 2 THEN Prefix(fallback_tokens, 4)
    ELSE Prefix(tokens, 4)

\* Line 386: word if word.isupper() else word.capitalize()
TitleCase(phrase) ==
    [i \in 1..Len(phrase) |->
        IF IsUpper(phrase[i]) THEN phrase[i] ELSE Capitalize(phrase[i])]

\* len(normalized) <= 1 (line 389): one word of one character.
SingleCharacter(phrase) == Len(phrase) = 1 /\ Lower(phrase[1]) = "x"

\* Lines 381-395; `original` is the sequence of the tokens.
FinishPhrase(tokens, phrase) ==
    IF PhraseIsUpper(phrase) THEN phrase
    ELSE IF SingleCharacter(TitleCase(phrase)) THEN tokens
    ELSE IF Len(phrase) = 1 /\ Len(tokens) >= 2
         THEN [i \in 1..2 |-> Capitalize(tokens[i])]
    ELSE TitleCase(phrase)

\* Lines 359-363: the noun phrase of the candidates, or the candidates.
NounCandidates(candidates) ==
    OrElse(filter_tokens_to_noun_phrase(candidates), candidates)

\* sanitize_highlight_text (lines 346-395)
sanitize_highlight_text(tokens) ==
    IF tokens = <<>> THEN <<>>
    ELSE FinishPhrase(tokens,
                      FallbackPhrase(tokens,
                                     NounCandidates(OrElse(SelectSeq(tokens, NotStopword), tokens)),
                                     SelectSeq(tokens, NotFiller)))

\* sum(ord(ch) for ch in highlight_id) for the ids the model uses.
OrdSum(id) ==
    CASE id = "highlight-01" -> 1094 [] id = "highlight-02" -> 1095
      [] id = "highlight-03" -> 1096 [] id = "h1" -> 153
      [] id = "s1" -> 164 [] id = "cta_subscribe" -> 1369
      [] id = "CTA-1" -> 310 [] id = "h01" -> 201
      [] id = "h02" -> 202 [] id = "h03" -> 203
      [] id = "h04" -> 204 [] id = "h05" -> 205
      [] id = "h06" -> 206 [] id = "h07" -> 207
      [] id = "h08" -> 208 [] id = "h09" -> 209
      [] id = "h10" -> 201 [] id = "h11" -> 202
      [] id = "h12" -> 203 [] id = "h13" -> 204
      [] id = "h14" -> 205 [] id = "h15" -> 206
      [] id = "h16" -> 207 [] id = "h17" -> 208
      [] id = "h18" -> 209 [] id = "h19" -> 210
      [] id = "h20" -> 202 [] id = "h21" -> 203
      [] id = "h22" -> 204 [] id = "h23" -> 205
      [] id = "h24" -> 206 [] id = "h25" -> 207
      [] id = "h26" -> 208 [] id = "section_s1" -> 1016
      [] id = "section_s2" -> 1017 [] id = "section_s3" -> 1018
      [] id = "section_s4" -> 1019

\* Lines 226-227
SectionSuffix(highlight_id) ==
    SECTION_TITLE_SUFFIXES[(OrdSum(highlight_id) % Len(SECTION_TITLE_SUFFIXES)) + 1]

\* Lines 228-232: the suffix is appended unless the phrase holds it already.
WithSuffix(sanitized, suffix) ==
    IF \E i \in 1..Len(sanitized) : Lower(sanitized[i]) = Lower(suffix)
    THEN sanitized ELSE Append(sanitized, suffix)

\* Lines 233-234: [display, keyword], keyword = display.upper()
SectionTitle(display) ==
    [display |-> display, keyword |-> [i \in 1..Len(display) |-> Upper(display[i])]]

\* format_section_title (lines 218-234)
format_section_title(highlight_id, base_phrase) ==
    SectionTitle(WithSuffix(OrElse(sanitize_highlight_text(base_phrase),
                                   SECTION_TITLE_FALLBACK),
                            SectionSuffix(highlight_id)))

(***************************************************************************)
(* normalize_highlight_item (make_plan.py 1247-1605)                       *)
(*                                                                         *)
(* A raw highlight entry is a record of tagged values; isDict tells        *)
(* whether the entry is a JSON object at all.  The keys modelled are id,   *)
(* type, text, title, keyword, icon, start, duration and end; the          *)
(* alternative spellings (caption, kind, time, length, ...) and the        *)
(* presentation keys (position, animation, variant, sfx, colours,          *)
(* supportingTexts, layout, radius, volume) are absent from every entry;   *)
(* no SRT lookup is passed.                                                *)
(***************************************************************************)
MAX_HIGHLIGHTS == 18
DEFAULT_HIGHLIGHT_DURATION == 26000
MIN_HIGHLIGHT_DURATION == 15000
MAX_HIGHLIGHT_DURATION == 50000

NoHighlightFields ==
    [isDict |-> TRUE, id |-> Absent, type |-> Absent, text |-> Absent,
     title |-> Absent, keyword |-> Absent, icon |-> Absent,
     start |-> Absent, duration |-> Absent, end |-> Absent]

\* f"highlight-{index + 1:02d}" and f"segment-{index + 1:02d}", index from 1
\* and below 100.
Digits == <<"0", "1", "2", "3", "4", "5", "6", "7", "8", "9">>
TwoDigits(n) == Digits[((n \div 10) % 10) + 1] \o Digits[(n % 10) + 1]
DefaultHighlightId(index) == "highlight-" \o TwoDigits(index)
DefaultSegmentId(index) == "segment-" \o TwoDigits(index)

\* (a or b or "").strip(): the words of the text, or an AttributeError when
\* the value is truthy and has no strip method.
StripText(v) ==
    IF ~Truthy(v) THEN [raised |-> FALSE, w |-> <<>>]
    ELSE IF v.t = "text" THEN [raised |-> FALSE, w |-> v.w]
    ELSE IF v.t = "str" THEN [raised |-> FALSE, w |-> <<v.s>>]
    ELSE [raised |-> TRUE, w |-> <<>>]

\* type_map.get(type_key, highlight_type_raw.strip()) (lines 1270-1288)
HighlightTypeMap(name) ==
    LET type_key == Lower(name) IN
    CASE type_key \in {"highlight", "caption", "callout", "notebox", "notecard", "quote"}
            -> "noteBox"
      [] type_key = "typewriter" -> "typewriter"
      [] type_key \in {"section", "sectiontitle", "titlecard", "chapter"} -> "sectionTitle"
      [] type_key \in {"icon", "iconhighlight"} -> "icon"
      [] OTHER -> name

\* Lines 1325-1332 without the clamp of line 1333.
HighlightDurationUnclamped(h, start) ==
    LET given == ensure_float(Get(h.duration, Num(0)), DEFAULT_HIGHLIGHT_DURATION)
        end_time == ensure_float(h.end, 0)
        from_end == IF given <= 0 /\ end_time > start THEN end_time - start ELSE given
    IN  IF from_end <= 0 THEN DEFAULT_HIGHLIGHT_DURATION ELSE from_end

\* Lines 1325-1333: the duration before it is stored.
HighlightDuration(h, start) ==
    LET given == ensure_float(Get(h.duration, Num(0)), DEFAULT_HIGHLIGHT_DURATION)
        end_time == ensure_float(h.end, 0)
        from_end == IF given <= 0 /\ end_time > start THEN end_time - start ELSE given
        positive == IF from_end <= 0 THEN DEFAULT_HIGHLIGHT_DURATION ELSE from_end
    IN  Max(MIN_HIGHLIGHT_DURATION, Min(positive, MAX_HIGHLIGHT_DURATION))

Dropped == [raised |-> FALSE, kept |-> FALSE, item |-> NoHighlightFields]
Failed == [raised |-> TRUE, kept |-> FALSE, item |-> NoHighlightFields]

\* Lines 1269-1288 and 1312-1313: the type of the entry, "" for None.
ResolvedType(h, icon_value) ==
    IF Truthy(h.type) /\ h.type.t = "str" THEN HighlightTypeMap(h.type.s)
    ELSE IF icon_value # <<>> THEN "icon"
    ELSE ""

\* Lines 1369-1370
KeywordText(h) == IF h.keyword.t = "text" THEN h.keyword.w ELSE <<>>

\* Lines 1366-1384: the first candidate that is not empty, sanitized (the
\* sanitized form of a text that is not empty is not empty).
SanitizedText(resolved, text_raw, keyword_text, title_raw) ==
    IF resolved = "icon" THEN <<>>
    ELSE sanitize_highlight_text(OrElse(text_raw, OrElse(keyword_text, title_raw)))

\* Lines 1394-1399
AssignedType(resolved, sanitized_text, text_raw) ==
    IF resolved # "" THEN resolved
    ELSE IF sanitized_text # <<>> \/ text_raw # <<>> THEN "noteBox"
    ELSE ""

\* Lines 1404-1430: the text and the keyword stored with the type.
HighlightText(assigned_type, sanitized_text, text_raw, section) ==
    CASE assigned_type = "noteBox" -> Text(sanitized_text)
      [] assigned_type = "sectionTitle" -> Text(section.display)
      [] assigned_type = "icon" /\ text_raw # <<>> -> Text(text_raw)
      [] OTHER -> Absent

HighlightKeyword(assigned_type, sanitized_text, section) ==
    CASE assigned_type = "noteBox" -> Text(sanitized_text)
      [] assigned_type = "sectionTitle" -> Text(section.keyword)
      [] OTHER -> Absent

\* raw.get(key) of a key that an entry may lack.
Field(h, key) == IF key \in DOMAIN h THEN h[key] ELSE Absent

\* The `items` key: a JSON array of values, or no array.
List(items) == [isList |-> TRUE, list |-> items]
NoItems == [isList |-> FALSE, list |-> <<>>]

\* supporting_texts: the words of each side, <<>> for a side without entry.
NoSupporting == [topLeft |-> <<>>, topRight |-> <<>>]

\* A raw supportingTexts object; top_left, left, primary, top_right, right
\* and secondary are absent from every object.
Supporting(top_left, top_right) ==
    [isDict |-> TRUE, topLeft |-> top_left, topRight |-> top_right]
NoSupportingTexts == [isDict |-> FALSE, topLeft |-> Absent, topRight |-> Absent]

DEFAULT_STAGGER_RIGHT == 20000

\* coerce_supporting (lines 1493-1497): <<>> for None.
coerce_supporting(value) ==
    IF value.t = "text" THEN sanitize_highlight_text(value.w) ELSE <<>>

\* Lines 1499-1518
SupportingFromObject(raw_supporting) ==
    IF raw_supporting.isDict
    THEN [topLeft |-> coerce_supporting(raw_supporting.topLeft),
          topRight |-> coerce_supporting(raw_supporting.topRight)]
    ELSE NoSupporting

\* Lines 1520-1531: the first two entries of `items`.
SupportingFromItems(items, supporting_texts) ==
    IF supporting_texts # NoSupporting \/ ~items.isList THEN supporting_texts
    ELSE [topLeft |-> IF Len(items.list) > 0 THEN coerce_supporting(items.list[1])
                      ELSE <<>>,
          topRight |-> IF Len(items.list) > 1 THEN coerce_supporting(items.list[2])
                       ELSE <<>>]

\* Lines 1533-1548: supportingLeft and supportingRight fill a side that is
\* still empty; supportLeft, supporting, keywordSecondary, left,
\* supportRight and right are absent from every entry.
SupportingTexts(h) ==
    LET supporting_texts ==
            SupportingFromItems(
                IF "items" \in DOMAIN h THEN h.items ELSE NoItems,
                SupportingFromObject(IF "supportingTexts" \in DOMAIN h
                                     THEN h.supportingTexts ELSE NoSupportingTexts))
    IN  [topLeft |-> OrElse(supporting_texts.topLeft,
                            coerce_supporting(Field(h, "supportingLeft"))),
         topRight |-> OrElse(supporting_texts.topRight,
                             coerce_supporting(Field(h, "supportingRight")))]

\* Lines 1553-1560: the layout the entry names, "" for None.
GivenLayout(h) ==
    LET layout_raw == Or(Field(h, "layout"), Or(Field(h, "arrangement"),
                                                Field(h, "alignment")))
    IN  IF layout_raw.t # "str" THEN ""
        ELSE IF Lower(layout_raw.s) \in {"left", "right", "dual", "bottom"}
             THEN Lower(layout_raw.s)
        ELSE IF Lower(layout_raw.s) \in {"pair", "split"} THEN "dual"
        ELSE ""

\* Lines 1553-1567
LayoutValue(h, supporting_texts, is_icon_highlight, sanitized_text) ==
    IF GivenLayout(h) # "" THEN GivenLayout(h)
    ELSE IF supporting_texts.topLeft # <<>> /\ supporting_texts.topRight # <<>> THEN "dual"
    ELSE IF supporting_texts.topLeft # <<>> THEN "left"
    ELSE IF supporting_texts.topRight # <<>> THEN "right"
    ELSE IF ~is_icon_highlight /\ sanitized_text # <<>> THEN "bottom"
    ELSE ""

\* highlight["supportingTexts"] (lines 1550-1551)
SupportingValue(supporting_texts) ==
    IF supporting_texts = NoSupporting THEN NoSupportingTexts
    ELSE Supporting(IF supporting_texts.topLeft # <<>>
                    THEN Text(supporting_texts.topLeft) ELSE Absent,
                    IF supporting_texts.topRight # <<>>
                    THEN Text(supporting_texts.topRight) ELSE Absent)

\* Lines 1420 and 1487-1581: the keys supportingTexts, layout, showBottom,
\* staggerLeft and staggerRight of the highlight; `side` and a raw
\* staggerRight are absent from every entry.
WithLayout(h, highlight, assigned_type, sanitized_text) ==
    LET supporting_texts == SupportingTexts(h)
        layout_value == LayoutValue(h, supporting_texts, assigned_type = "icon",
                                    sanitized_text)
        added == [supportingTexts |-> SupportingValue(supporting_texts),
                  layout |-> IF layout_value # "" THEN Str(layout_value) ELSE Absent,
                  showBottom |-> \/ assigned_type = "noteBox"
                                 \/ /\ layout_value \in {"left", "right", "dual"}
                                    /\ sanitized_text # <<>>,
                  staggerLeft |-> IF supporting_texts # NoSupporting THEN Num(0)
                                  ELSE Absent,
                  staggerRight |-> IF supporting_texts.topRight # <<>>
                                   THEN Num(DEFAULT_STAGGER_RIGHT) ELSE Absent]
    IN  [key \in DOMAIN highlight \cup DOMAIN added |->
            IF key \in DOMAIN added THEN added[key] ELSE highlight[key]]

\* Lines 1386-1581: the highlight assembled from the parts.
BuildHighlight(h, highlight_id, text_raw, title_raw, icon_value, sanitized_text, assigned_type, section, start) ==
    IF assigned_type = "noteBox" /\ sanitized_text = <<>> THEN Dropped
    ELSE [raised |-> FALSE, kept |-> TRUE,
          item |-> WithLayout(h, [NoHighlightFields EXCEPT
                      !.id = Str(highlight_id),
                      !.type = IF assigned_type # "" THEN Str(assigned_type) ELSE Absent,
                      !.text = HighlightText(assigned_type, sanitized_text, text_raw, section),
                      !.keyword = HighlightKeyword(assigned_type, sanitized_text, section),
                      !.title = IF title_raw # <<>> THEN Text(title_raw) ELSE Absent,
                      !.icon = IF icon_value # <<>> THEN Text(icon_value) ELSE Absent,
                      !.start = Num(Round3(start)),
                      !.duration = Num(Round3(HighlightDuration(h, start)))],
                      assigned_type, sanitized_text)]

\* Lines 1394-1427: the assigned type and the section title of the entry.
HighlightSanitized(h, highlight_id, text_raw, title_raw, icon_value, resolved, keyword_text, sanitized_text) ==
    BuildHighlight(h, highlight_id, text_raw, title_raw, icon_value, sanitized_text,
                   AssignedType(resolved, sanitized_text, text_raw),
                   format_section_title(highlight_id,
                       OrElse(title_raw, OrElse(text_raw, OrElse(keyword_text, sanitized_text)))),
                   Max(0, ensure_float(Get(h.start, Num(0)), 0)))

\* Lines 1311-1384
HighlightOfType(h, highlight_id, text_raw, title_raw, icon_value, resolved, keyword_text) ==
    HighlightSanitized(h, highlight_id, text_raw, title_raw, icon_value, resolved,
                       keyword_text,
                       SanitizedText(resolved, text_raw, keyword_text, title_raw))

\* Lines 1291-1318: the strips raise on a value that is not a string; an
\* entry without content is no highlight.
HighlightFromTexts(h, highlight_id, text, title, icon) ==
    IF text.raised \/ title.raised \/ icon.raised THEN Failed
    ELSE IF text.w = <<>> /\ title.w = <<>> /\ icon.w = <<>> THEN Dropped
    ELSE HighlightOfType(h, highlight_id, text.w, title.w, icon.w,
                         ResolvedType(h, icon.w), KeywordText(h))

\* The result is [raised, kept, item]: raised when an AttributeError leaves
\* the function, kept when it returns a highlight, item the highlight.
normalize_highlight_item(h, index) ==
    IF ~h.isDict THEN Dropped
    ELSE HighlightFromTexts(h,
                            IF Truthy(h.id) THEN h.id.s ELSE DefaultHighlightId(index),
                            StripText(h.text), StripText(h.title), StripText(h.icon))

\* plan["meta"]: absent, or a value that is or is not an object; an object
\* may hold warnings and a generatedSections count.
NoMeta == [present |-> FALSE, isDict |-> FALSE, hasWarnings |-> FALSE,
           warnings |-> <<>>, generatedSections |-> 0]

(***************************************************************************)
(* normalize_plan (make_plan.py 1608-1792)                                 *)
(*                                                                         *)
(* A raw plan is a record: isDict (the top-level value is a JSON object),  *)
(* segmentsIsList and segments, highlightsKey (which of "highlights" and   *)
(* the legacy "actions" holds a list, or "none") and highlights, and meta. *)
(* A raw segment entry has the keys id, sourceStart, start, end, duration, *)
(* length, timelineStart, label, title and transitionIn; silenceAfter,     *)
(* gapAfter, playbackRate, transitionOut, cameraMovement and metadata are  *)
(* absent from every entry (silenceAfter is then false in every output).   *)
(***************************************************************************)
NoSegmentFields ==
    [isDict |-> TRUE, id |-> Absent, sourceStart |-> Absent, start |-> Absent,
     end |-> Absent, duration |-> Absent, length |-> Absent,
     timelineStart |-> Absent, label |-> Absent, title |-> Absent,
     transitionIn |-> Absent]

\* Lines 1645-1667: source_start and the duration of a raw segment; a
\* duration of 0 stands for `continue` (none of the three is positive).
SegmentSourceStart(g) == ensure_float(Get(g.sourceStart, Get(g.start, Num(0))), 0)

\* Line 1654 alone: the duration field, without the fallbacks.
DurationFieldOnly(g) == Max(0, ensure_float(g.duration, 0))

SegmentDuration(g) ==
    LET source_start == SegmentSourceStart(g)
        duration == ensure_float(g.duration, 0)
        end_value == ensure_float(g.end, 0)
        start_value == ensure_float(Get(g.start, Num(source_start)), 0)
        from_end == IF duration <= 0 /\ end_value > start_value
                    THEN end_value - start_value ELSE duration
        length_value == ensure_float(g.length, 0)
        from_length == IF from_end <= 0 /\ length_value > 0 THEN length_value ELSE from_end
    IN  Max(0, from_length)

SkippedSegment ==
    [raised |-> FALSE, kept |-> FALSE, timeline_start |-> 0, item |-> NoSegmentFields]

\* Lines 1669-1753: the segment assembled, unless a strip or a transition
\* raised.
SegmentAssembled(g, index, source_start, duration, label, transition_in) ==
    IF label.raised \/ transition_in = Raised
    THEN [SkippedSegment EXCEPT !.raised = TRUE]
    ELSE [raised |-> FALSE, kept |-> TRUE,
          timeline_start |-> ensure_float(Get(g.timelineStart, Null), source_start),
          item |-> [NoSegmentFields EXCEPT
                      !.id = Str(IF Truthy(g.id) THEN g.id.s ELSE DefaultSegmentId(index)),
                      !.sourceStart = Num(Round3(source_start)),
                      !.duration = Num(Round3(duration)),
                      !.label = IF label.w # <<>> THEN Text(label.w) ELSE Absent,
                      !.title = IF g.title.t = "text" /\ g.title.w # <<>>
                                THEN g.title ELSE Absent,
                      !.transitionIn = IF transition_in.t = "dict"
                                       THEN transition_in ELSE Absent]]

\* Lines 1666-1667: `continue` when no duration is positive.
SegmentWithDuration(g, index, source_start, duration) ==
    IF duration <= 0 THEN SkippedSegment
    ELSE SegmentAssembled(g, index, source_start, duration,
                          StripText(Or(g.label, g.title)),
                          normalize_transition(Or(g.transitionIn, Null)))

\* One pass of the loop of lines 1640-1753: [raised, kept, timeline_start,
\* item] for the raw segment at position index.
normalize_segment(g, index) ==
    IF ~g.isDict THEN SkippedSegment
    ELSE SegmentWithDuration(g, index, SegmentSourceStart(g), SegmentDuration(g))

\* The segment loop: [raised, items], items the (timeline_start, segment) pairs.
RECURSIVE SegmentLoop(_, _, _)
SegmentLoopStep(raws, index, items, r) ==
    IF r.raised THEN [raised |-> TRUE, items |-> items]
    ELSE SegmentLoop(raws, index + 1,
                     IF r.kept
                     THEN Append(items,
                                 [key |-> <<r.timeline_start, r.item.sourceStart.n>>,
                                  item |-> r.item])
                     ELSE items)

SegmentLoop(raws, index, items) ==
    IF index > Len(raws) THEN [raised |-> FALSE, items |-> items]
    ELSE SegmentLoopStep(raws, index, items, normalize_segment(raws[index], index))

ACTION_HIGHLIGHT_TYPES ==
    {"caption", "highlight", "icon", "notebox", "typewriter", "section", "sectiontitle"}

IsRecord(entry) == entry.isDict
IsHighlightAction(a) == Truthy(a.type) /\ Lower(a.type.s) \in ACTION_HIGHLIGHT_TYPES

\* Lines 1763-1769: the legacy actions that are highlights; .lower() raises
\* on a type that is not a string.
ActionHighlights(records) ==
    IF \E i \in 1..Len(records) : Truthy(records[i].type) /\ records[i].type.t # "str"
    THEN [raised |-> TRUE, list |-> <<>>]
    ELSE [raised |-> FALSE, list |-> SelectSeq(records, IsHighlightAction)]

\* Lines 1760-1769: the raw highlight list, [raised, list].
RawHighlights(plan) ==
    IF plan.highlightsKey = "highlights"
    THEN [raised |-> FALSE, list |-> plan.highlights]
    ELSE IF plan.highlightsKey = "actions"
    THEN ActionHighlights(SelectSeq(plan.highlights, IsRecord))
    ELSE [raised |-> FALSE, list |-> <<>>]

\* Lines 1771-1777: [raised, list], the loop ending at MAX_HIGHLIGHTS.
RECURSIVE HighlightLoop(_, _, _)
\* The loop ending once MAX_HIGHLIGHTS raw entries have been visited, the
\* entries that normalise to nothing counted with the others.
HighlightLoopNextVisited(raws, index, next) ==
    IF index >= MAX_HIGHLIGHTS THEN [raised |-> FALSE, list |-> next]
    ELSE HighlightLoop(raws, index + 1, next)

HighlightLoopNext(raws, index, next) ==
    IF Len(next) >= MAX_HIGHLIGHTS THEN [raised |-> FALSE, list |-> next]
    ELSE HighlightLoop(raws, index + 1, next)

HighlightLoopStep(raws, index, normalized, r) ==
    IF r.raised THEN [raised |-> TRUE, list |-> normalized]
    ELSE HighlightLoopNext(raws, index,
                           IF r.kept THEN Append(normalized, r.item) ELSE normalized)

HighlightLoop(raws, index, normalized) ==
    IF index > Len(raws) THEN [raised |-> FALSE, list |-> normalized]
    ELSE HighlightLoopStep(raws, index, normalized,
                           normalize_highlight_item(raws[index], index))

\* normalized_highlights.sort(key=lambda item: item.get("start", 0.0))
SortHighlightsByStart(hs) ==
    Items(SortKeyed([i \in 1..Len(hs) |-> [key |-> <<hs[i].start.n>>, item |-> hs[i]]]))

EmptyRawPlan ==
    [isDict |-> TRUE, segmentsIsList |-> TRUE, segments |-> <<>>,
     highlightsKey |-> "highlights", highlights |-> <<>>, meta |-> NoMeta]

\* Lines 1755-1792: the plan returned, unless an entry raised.
AssemblePlan(plan, segment_items, normalized_highlights) ==
    IF segment_items.raised \/ normalized_highlights.raised
    THEN [outcome |-> "AttributeError", plan |-> EmptyRawPlan]
    ELSE [outcome |-> "returned",
          plan |-> [isDict |-> TRUE,
                    segmentsIsList |-> TRUE,
                    segments |-> Items(SortKeyed(segment_items.items)),
                    highlightsKey |-> "highlights",
                    highlights |-> SortHighlightsByStart(normalized_highlights.list),
                    meta |-> plan.meta]]

\* Lines 1760-1777: the highlights of the plan, normalised.
NormalizedHighlights(raw_highlights) ==
    IF raw_highlights.raised THEN [raised |-> TRUE, list |-> <<>>]
    ELSE HighlightLoop(raw_highlights.list, 1, <<>>)

\* [outcome, plan]: the plan returned, or the exception that leaves the call.
normalize_plan(plan) ==
    IF ~plan.isDict THEN [outcome |-> "ValueError", plan |-> EmptyRawPlan]
    ELSE AssemblePlan(plan,
                      IF plan.segmentsIsList
                      THEN SegmentLoop(plan.segments, 1, <<>>)
                      ELSE [raised |-> FALSE, items |-> <<>>],
                      NormalizedHighlights(RawHighlights(plan)))

(***************************************************************************)
(* Scene summaries and the scored B-roll match (enrich_plan.py 761,        *)
(* 2403-2571).                                                             *)
(*                                                                         *)
(* A scene entry of the scene map is a record                              *)
(*   start, end, topics, tokens, highlightScore, cta, text, sfxHints,      *)
(*   motionCandidates                                                      *)
(* highlightScore is counted in hundredths, text is textOneLine as its     *)
(* words in lower case, tokens the entry's token list.  topics and         *)
(* sfxHints are sets: a scene map holds at most 6 topics and 8 hints, so   *)
(* that most_common(6) and most_common(8) keep them all; every entry has   *)
(* an `end`.  motionCandidates are the names the entry lists, as the scene *)
(* map spells them.                                                        *)
(*                                                                         *)
(* A plan segment of the enrichment stage is a record                      *)
(*   id, sourceStart, duration, label, kind, broll, motionCue, notes,      *)
(*   hasSfxHints, sfxHints                                                 *)
(* label is `label or title` as words in lower case, kind and motionCue    *)
(* are "" when the key is missing, notes is a sequence of Note records.    *)
(* A B-roll value                                                          *)
(* has the fields of NoBroll; `file` follows the id in the catalog.        *)
(* A catalog item is a record                                              *)
(*   id, topics, keywords, mood, mediaType, orientation, duration,         *)
(*   durationHintSeconds                                                   *)
(* with mood telling whether the item lists any mood.  B-roll scores are   *)
(* counted in tenths of a point, confidences in hundredths.                *)
(***************************************************************************)
NoBroll == [present |-> FALSE, id |-> "", mode |-> "", confidence |-> 0,
            reasons |-> <<>>, hasDuration |-> FALSE, duration |-> 0]

Note(text, about) == [text |-> text, about |-> about]

overlap_seconds(a_start, a_end, b_start, b_end) ==
    Max(0, Min(a_end, b_end) - Max(a_start, b_start))

\* SceneSummary (2403-2432); exists is FALSE for the None of line 2444/2481.
NoSummary == [exists |-> FALSE, start |-> 0, end |-> 0, topics |-> {},
              score_total |-> 0, total_weight |-> 0, motion_candidates |-> <<>>,
              tokens |-> {}, text |-> <<>>, cta |-> FALSE, sfx_hints |-> {}]

\* SceneSummary.duration
SummaryDuration(scene) == Max(0, scene.end - scene.start)

\* highlight_score >= bound, with highlight_score the quotient of line 2484
\* and bound in hundredths.
ScoreAtLeast(scene, bound) == scene.score_total >= bound * scene.total_weight

RECURSIVE WeightedScore(_, _, _)
WeightedScore(start, end, scenes) ==
    IF scenes = <<>> THEN 0
    ELSE Head(scenes).highlightScore
             * overlap_seconds(start, end, Head(scenes).start, Head(scenes).end)
         + WeightedScore(start, end, Tail(scenes))

RECURSIVE TotalWeight(_, _, _)
TotalWeight(start, end, scenes) ==
    IF scenes = <<>> THEN 0
    ELSE overlap_seconds(start, end, Head(scenes).start, Head(scenes).end)
         + TotalWeight(start, end, Tail(scenes))

RECURSIVE JoinTexts(_)
JoinTexts(scenes) ==
    IF scenes = <<>> THEN <<>> ELSE Head(scenes).text \o JoinTexts(Tail(scenes))

\* camel_case_motion (742-758) on the candidate names of the scene maps:
\* the name is lowered before its parts are joined, so that a name that is
\* already in camel case loses its capital.
camel_case_motion(name) ==
    CASE name = "zoom-in" -> "zoomIn"
      [] name = "zoom out" -> "zoomOut"
      [] name = "zoomIn" -> "zoomin"
      [] name = "pan" -> "pan"
      [] name = "slide_up" -> "slideUp"
      [] name = "-" -> ""

\* Lines 2465-2468: the names of the candidates, each once, in the order
\* the scenes give them.
RECURSIVE MotionCandidates(_, _)
MotionCandidates(names, motion_candidates) ==
    IF names = <<>> THEN motion_candidates
    ELSE LET motion_name == camel_case_motion(Head(names))
         IN  MotionCandidates(Tail(names),
                 IF motion_name # ""
                    /\ \A i \in 1..Len(motion_candidates) :
                           motion_candidates[i] # motion_name
                 THEN Append(motion_candidates, motion_name)
                 ELSE motion_candidates)

RECURSIVE JoinCandidates(_)
JoinCandidates(scenes) ==
    IF scenes = <<>> THEN <<>>
    ELSE Head(scenes).motionCandidates \o JoinCandidates(Tail(scenes))

\* Lines 2456-2499 on the scene entries of positive weight.
SummaryOf(start, end, scenes) ==
    IF scenes = <<>> THEN NoSummary
    ELSE [exists |-> TRUE, start |-> start, end |-> end,
          topics |-> UNION {scenes[i].topics : i \in 1..Len(scenes)},
          score_total |-> WeightedScore(start, end, scenes),
          total_weight |-> TotalWeight(start, end, scenes),
          motion_candidates |-> MotionCandidates(JoinCandidates(scenes), <<>>),
          tokens |-> UNION {{scenes[i].tokens[j] : j \in 1..Len(scenes[i].tokens)} :
                               i \in 1..Len(scenes)},
          text |-> JoinTexts(scenes),
          cta |-> \E i \in 1..Len(scenes) : scenes[i].cta,
          sfx_hints |-> UNION {scenes[i].sfxHints : i \in 1..Len(scenes)}]

aggregate_scene_for_segment(plan_segment, scene_segments) ==
    LET start == plan_segment.sourceStart
        end == start + plan_segment.duration
        Weighs(scene) == overlap_seconds(start, end, scene.start, scene.end) > 0
    IN  IF end <= start THEN NoSummary
        ELSE SummaryOf(start, end, SelectSeq(scene_segments, Weighs))

\* score_broll_item (2507-2536): the score, and the reasons.
score_broll_item(item, scene) ==
    25 * Cardinality(item.topics \cap scene.topics)
    + 10 * Cardinality(scene.tokens \cap item.keywords)
    + (IF ScoreAtLeast(scene, 70) /\ item.mood THEN 4 ELSE 0)
    + (IF item.mediaType = "video" THEN 3 ELSE 0)
    + (IF item.orientation = "landscape" THEN 1 ELSE 0)

BrollReasons(item, scene) ==
    LET reasons ==
            (IF item.topics \cap scene.topics # {} THEN <<"topics match">> ELSE <<>>)
            \o (IF scene.tokens \cap item.keywords # {} THEN <<"keywords hit">> ELSE <<>>)
            \o (IF ScoreAtLeast(scene, 70) /\ item.mood
                THEN <<"highlight scene prefers mood assets">> ELSE <<>>)
    IN  IF reasons = <<>> THEN <<"fallback">> ELSE reasons

NoSelection == [found |-> FALSE, id |-> "", score |-> 0, reasons |-> <<>>]

\* Lines 2553-2557: one turn of the loop over the filtered items.
BetterItem(best, item, scene, score) ==
    IF score > best.score
    THEN [found |-> TRUE, id |-> item.id, score |-> score,
          reasons |-> BrollReasons(item, scene)]
    ELSE best

RECURSIVE BestItem(_, _, _)
BestItem(items, scene, best) ==
    IF items = <<>> THEN best
    ELSE BestItem(Tail(items), scene,
                  BetterItem(best, Head(items), scene,
                             score_broll_item(Head(items), scene)))

\* Lines 2559-2561: the best item is withheld below the threshold (tenths)
\* and for a scene whose highlight score is below 0.6.
AcceptBest(best, scene, threshold) ==
    IF ~best.found \/ best.score < threshold \/ ~ScoreAtLeast(scene, 60)
    THEN NoSelection ELSE best

select_broll(scene, catalog, threshold) ==
    LET LongEnough(item) == 10 * item.duration >= 8 * SummaryDuration(scene)
    IN  AcceptBest(BestItem(SelectSeq(catalog, LongEnough), scene, NoSelection),
                   scene, threshold)

(***************************************************************************)
(* The phrase extractor of the enrichment stage (enrich_plan.py 195-312,   *)
(* 873-942, 987-1043).                                                    *)
(*                                                                         *)
(* A text of the enrichment stage is the sequence of its [A-Za-z0-9']+     *)
(* tokens in lower case: every test the passes make on a text compares     *)
(* case-insensitively, and a phrase is held in lower case whatever case    *)
(* (upper(), title()) the source stores it in.  The empty sequence is the  *)
(* empty string and the None of a phrase that could not be derived.        *)
(* The run is one without nltk (_ensure_pos_tagger, 170-188, is False):    *)
(* _filter_with_pos returns [], and the noun phrase is the one of          *)
(* _fallback_filter.  The word sets are                                    *)
(* the members of the source's sets that the vocabulary can meet.          *)
(***************************************************************************)
FILLER_WORDS == {"uh", "um", "uhh", "umm", "oh", "ah", "er", "hmm", "huh",
                 "yeah", "yep", "nope", "okay", "ok", "alright", "ahead"}
STOP_WORDS == {"a", "an", "and", "are", "as", "at", "be", "is", "of", "the"}
IMPORTANT_SHORT_TOKENS == {"ai", "ms", "ebv", "cta"}
GENERIC_SKIP_TOKENS == {"day", "first", "one", "thing", "time"}
MIN_KEYWORD_LENGTH == 3
MAX_KEYWORD_TOKENS == 3

IsAllowedConnector(t) == t \in ALLOWED_CONNECTORS
IsCommonVerb(t) == t \in COMMON_VERB_TOKENS
IsContentToken(t) == t \notin ALLOWED_CONNECTORS

\* keyword_is_meaningful (873-886)
keyword_is_meaningful(tokens) ==
    /\ tokens # <<>>
    /\ tokens # <<"first", "one">>
    /\ \E i \in 1..Len(tokens) : tokens[i] \notin GENERIC_SKIP_TOKENS
    /\ \A i \in 1..Len(tokens) : ~IsCommonVerb(tokens[i])
    /\ LET content_tokens == SelectSeq(tokens, IsContentToken)
       IN  ~(Len(content_tokens) = 1 /\ TokenLen(content_tokens[1]) < 5)

RECURSIVE EnrichTrimLeading(_)
EnrichTrimLeading(ws) ==
    IF ws # <<>> /\ IsAllowedConnector(Head(ws)) THEN EnrichTrimLeading(Tail(ws)) ELSE ws

RECURSIVE EnrichTrimTrailing(_)
EnrichTrimTrailing(ws) ==
    IF ws # <<>> /\ IsAllowedConnector(Last(ws)) THEN EnrichTrimTrailing(Front(ws)) ELSE ws

\* _trim_edge_connectors (195-201)
enrich_trim_edge_connectors(ws) == EnrichTrimTrailing(EnrichTrimLeading(ws))

\* _has_future_content (260-271): a later token that is not a common verb.
fallback_has_future_content(ws, from) == \E j \in from..Len(ws) : ~IsCommonVerb(ws[j])

\* The loop of _fallback_filter (273-287) from token idx.
RECURSIVE FallbackLoop(_, _, _)
FallbackLoop(ws, idx, selected) ==
    IF idx > Len(ws) THEN selected
    ELSE IF IsAllowedConnector(ws[idx])
         THEN FallbackLoop(ws, idx + 1,
                           IF selected # <<>> /\ fallback_has_future_content(ws, idx + 1)
                           THEN Append(selected, ws[idx]) ELSE selected)
         ELSE IF IsCommonVerb(ws[idx]) THEN FallbackLoop(ws, idx + 1, selected)
         ELSE FallbackLoop(ws, idx + 1, Append(selected, ws[idx]))

\* _fallback_filter (256-289)
fallback_filter(ws) == enrich_trim_edge_connectors(FallbackLoop(ws, 1, <<>>))

\* The loop of lines 304-311: tokens up to the max_tokens-th content token.
RECURSIVE EnrichLimitLoop(_, _, _, _, _)
EnrichLimitLoop(ws, idx, limited, content_count, max_tokens) ==
    IF idx > Len(ws) THEN limited
    ELSE IF ~IsAllowedConnector(ws[idx]) /\ content_count + 1 >= max_tokens
         THEN Append(limited, ws[idx])
         ELSE EnrichLimitLoop(ws, idx + 1, Append(limited, ws[idx]),
                              IF IsAllowedConnector(ws[idx]) THEN content_count
                              ELSE content_count + 1,
                              max_tokens)

\* Line 312: `_trim_edge_connectors(limited) or filtered`.
EnrichLimitTokens(filtered, max_tokens) ==
    OrElse(enrich_trim_edge_connectors(EnrichLimitLoop(filtered, 1, <<>>, 0, max_tokens)),
           filtered)

\* filter_tokens_to_noun_phrase (292-314), max_tokens > 0.
enrich_filter_tokens_to_noun_phrase(ws, max_tokens) ==
    IF ws = <<>> THEN <<>>
    ELSE EnrichLimitTokens(OrElse(fallback_filter(ws), ws), max_tokens)

\* Lines 901-911: the tests that keep a token out of the candidates.
IsKeywordCandidate(t) ==
    /\ t \notin FILLER_WORDS
    /\ ~(t \in STOP_WORDS /\ t \notin IMPORTANT_SHORT_TOKENS)
    /\ t \notin GENERIC_SKIP_TOKENS
    /\ ~(TokenLen(t) < MIN_KEYWORD_LENGTH /\ t \notin IMPORTANT_SHORT_TOKENS)

\* The loop of lines 900-918: the first max_tokens * 3 distinct candidates.
RECURSIVE CandidateLoop(_, _, _)
CandidateLoop(tokens, raw_candidates, cap) ==
    IF tokens = <<>> \/ Len(raw_candidates) >= cap THEN raw_candidates
    ELSE CandidateLoop(Tail(tokens),
                       IF IsKeywordCandidate(Head(tokens))
                          /\ \A i \in 1..Len(raw_candidates) : raw_candidates[i] # Head(tokens)
                       THEN Append(raw_candidates, Head(tokens)) ELSE raw_candidates,
                       cap)

IsMeaningfulWord(t) == keyword_is_meaningful(<<t>>)

\* Lines 933-938: the phrase of the keywords that are meaningful alone.
MeaningfulOnly(filtered, max_tokens) ==
    IF filtered = <<>> THEN <<>>
    ELSE IF keyword_is_meaningful(Prefix(filtered, IF Len(filtered) = 1 THEN 1 ELSE max_tokens))
         THEN Prefix(filtered, IF Len(filtered) = 1 THEN 1 ELSE max_tokens)
    ELSE <<>>

\* Lines 931-942.  No phrase of max_tokens <= 5 words of the vocabulary is
\* longer than the 48 characters its callers here pass (lines 1032, 1209,
\* 1210), so line 941 does not truncate.
PhraseOfKeywords(keywords, max_tokens) ==
    IF keyword_is_meaningful(Prefix(keywords, max_tokens))
    THEN Prefix(keywords, max_tokens)
    ELSE MeaningfulOnly(SelectSeq(keywords, IsMeaningfulWord), max_tokens)

\* Lines 920-929
KeywordsOfCandidates(raw_candidates, max_tokens) ==
    IF raw_candidates = <<>> THEN <<>>
    ELSE PhraseOfKeywords(OrElse(enrich_filter_tokens_to_noun_phrase(raw_candidates, max_tokens),
                                 Prefix(raw_candidates, max_tokens)),
                          max_tokens)

\* select_keyword_phrase (889-942)
select_keyword_phrase(text, max_tokens) ==
    KeywordsOfCandidates(CandidateLoop(text, <<>>, max_tokens * 3), max_tokens)

\* condense_text (856-866)
condense_text(value, max_words) ==
    select_keyword_phrase(value, Min(max_words, MAX_KEYWORD_TOKENS))

RECURSIVE JoinTokens(_)
JoinTokens(window) ==
    IF window = <<>> THEN <<>> ELSE Head(window).tokens \o JoinTokens(Tail(window))

\* Lines 1036-1041: the phrase of the window's token lists.
PhraseOfTokens(filtered_tokens) ==
    IF keyword_is_meaningful(filtered_tokens) THEN filtered_tokens ELSE <<>>

\* derive_phrase_from_window (1009-1043): window is a list of scene entries.
derive_phrase_from_window(window, max_tokens) ==
    IF window = <<>> THEN <<>>
    ELSE OrElse(select_keyword_phrase(JoinTexts(window), max_tokens),
                PhraseOfTokens(enrich_filter_tokens_to_noun_phrase(JoinTokens(window),
                                                                   max_tokens)))

\* window.sort(key=lambda item: float(item.get("start", 0.0)))
SortScenes(entries) ==
    Items(SortKeyed([i \in 1..Len(entries) |->
                        [key |-> <<entries[i].start>>, item |-> entries[i]]]))

\* collect_scene_window (987-1006): the entries that overlap [start, end] by
\* min_overlap or more, by ascending start.
collect_scene_window(scene_segments, start, end, min_overlap) ==
    LET Overlaps(entry) ==
            /\ entry.end > entry.start
            /\ overlap_seconds(start, end, entry.start, entry.end) >= min_overlap
    IN  SortScenes(SelectSeq(scene_segments, Overlaps))

(***************************************************************************)
(* enrich_plan (enrich_plan.py 2683-2766) with ensure_cta_highlight        *)
(* (2613-2654), inject_section_cards (1374-1451) and                       *)
(* compute_timing_warnings (2662-2675).                                    *)
(*                                                                         *)
(* The run has a B-roll catalog and the motion rules of motion_rules; the  *)
(* SFX catalog is read only for the sound of the CTA, which a highlight    *)
(* of the model does not carry.  A warning is a record                     *)
(* kind, amount, prev, current: the kind and the three values its text is  *)
(* formatted from.                                                         *)
(***************************************************************************)
BROLL_THRESHOLD == 15
TIMING_TOLERANCE == 500
MAX_SECTION_CARDS == 4
MIN_SECTION_GAP == 180000
MIN_SECTION_START == 50000
MIN_SECTION_SCENE == 30000
MIN_CARD_DURATION == 32000
MAX_CARD_DURATION == 52000
SECTION_WINDOW_OVERLAP == 4000
MIN_CTA_DURATION == 25000
MAX_CTA_DURATION == 50000
CTA_LEAD == 30000

NO_SCENE_NOTE == "No matching scene metadata; skipped B-roll and motion cue."
NO_MATCH_NOTE == "No B-roll match above threshold."

\* Lines 2715-2727: the scored match writes segment["broll"] whatever the
\* segment held there.
SegmentWithBroll(segment, broll) ==
    IF broll.found
    THEN [segment EXCEPT !.broll = [NoBroll EXCEPT !.present = TRUE,
                                                   !.id = broll.id,
                                                   !.mode = "full",
                                                   !.confidence = broll.score * 10,
                                                   !.reasons = broll.reasons]]
    ELSE segment

BrollNotes(broll) ==
    IF broll.found THEN <<Note("B-roll assigned", broll.id)>>
    ELSE <<Note(NO_MATCH_NOTE, "")>>

\* Lines 2744-2746
SegmentWithSfxHints(segment, scene_summary) ==
    IF scene_summary.sfx_hints # {} /\ ~segment.hasSfxHints
    THEN [segment EXCEPT !.hasSfxHints = TRUE, !.sfxHints = scene_summary.sfx_hints]
    ELSE segment

SfxNotes(segment, scene_summary) ==
    IF scene_summary.sfx_hints # {} /\ ~segment.hasSfxHints
    THEN <<Note("SFX hints propagated", "")>> ELSE <<>>

\* ceil(total_segments * frequency), the frequency in hundredths.
MotionCap(total_segments, frequency) == (total_segments * frequency + 99) \div 100

\* select_motion_cue (2579-2605): "" for None.
select_motion_cue(scene, rules, assigned_so_far, total_segments) ==
    LET max_segments == IF rules.motion_frequency > 0
                        THEN MotionCap(total_segments, rules.motion_frequency)
                        ELSE total_segments
    IN  IF assigned_so_far >= max_segments THEN ""
        ELSE IF scene.motion_candidates # <<>> THEN scene.motion_candidates[1]
        ELSE IF ScoreAtLeast(scene, rules.highlight_rate) THEN "zoomIn"
        ELSE IF ScoreAtLeast(scene, 40) /\ SummaryDuration(scene) > 50000 THEN "pan"
        ELSE IF ~ScoreAtLeast(scene, 40) /\ SummaryDuration(scene) > 30000 THEN "zoomOut"
        ELSE ""

\* Lines 2729-2735: the cue of a segment with a scene summary.
MotionCueOf(scene_summary, rules, assigned_motion, total_segments) ==
    IF rules.empty THEN ""
    ELSE select_motion_cue(scene_summary, rules, assigned_motion, total_segments)

\* Lines 2736-2739
SegmentWithMotion(segment, motion_cue) ==
    IF motion_cue # "" THEN [segment EXCEPT !.motionCue = motion_cue] ELSE segment

MotionNotes(motion_cue) ==
    IF motion_cue # "" THEN <<Note("Motion cue assigned", motion_cue)>> ELSE <<>>

\* Lines 2713-2749 for a segment with a scene summary.
SegmentWithScene(segment, scene_summary, broll, motion_cue) ==
    [SegmentWithSfxHints(SegmentWithMotion(SegmentWithBroll(segment, broll), motion_cue),
                         scene_summary)
        EXCEPT !.notes = segment.notes \o BrollNotes(broll) \o MotionNotes(motion_cue)
                         \o SfxNotes(segment, scene_summary)]

\* The turn of the loop without lines 2706-2711: a segment without a scene
\* summary is passed over in silence.
EnrichSegmentSilent(segment, scene_summary, broll_catalog, broll_threshold, motion_cue) ==
    IF ~scene_summary.exists THEN segment
    ELSE SegmentWithScene(segment, scene_summary,
                          select_broll(scene_summary, broll_catalog, broll_threshold),
                          motion_cue)

\* One turn of the loop of lines 2702-2751.
EnrichSegment(segment, scene_summary, broll_catalog, broll_threshold, motion_cue) ==
    IF ~scene_summary.exists
    THEN [segment EXCEPT !.notes = Append(segment.notes, Note(NO_SCENE_NOTE, ""))]
    ELSE SegmentWithScene(segment, scene_summary,
                          select_broll(scene_summary, broll_catalog, broll_threshold),
                          motion_cue)

\* Line 2703: segment.setdefault("kind", "normal")
WithKind(segment) == IF segment.kind = "" THEN [segment EXCEPT !.kind = "normal"] ELSE segment

\* assigned_motion before the turn of segment idx: the cues the turns
\* before it assigned.
RECURSIVE AssignedMotion(_, _, _, _)
AssignedMotion(segs, scene_segments, rules, idx) ==
    IF idx <= 1 THEN 0
    ELSE LET before == AssignedMotion(segs, scene_segments, rules, idx - 1)
             scene_summary == aggregate_scene_for_segment(segs[idx - 1], scene_segments)
         IN  IF scene_summary.exists
                /\ MotionCueOf(scene_summary, rules, before, Len(segs)) # ""
             THEN before + 1 ELSE before

EnrichSegments(segs, scene_segments, broll_catalog, broll_threshold, rules) ==
    [i \in 1..Len(segs) |->
        LET scene_summary == aggregate_scene_for_segment(segs[i], scene_segments)
        IN  EnrichSegment(WithKind(segs[i]), scene_summary, broll_catalog,
                          broll_threshold,
                          IF scene_summary.exists
                          THEN MotionCueOf(scene_summary, rules,
                                           AssignedMotion(segs, scene_segments, rules, i),
                                           Len(segs))
                          ELSE "")]

\* segment_summary_pairs (2751): the segments that have a scene summary.
HasScene(segs, scene_segments) ==
    LET Summarised(segment) == aggregate_scene_for_segment(segment, scene_segments).exists
    IN  SelectSeq(segs, Summarised)

\* cta_candidates (2741-2742)
CtaCandidates(segs, scene_segments) ==
    LET Flagged(segment) == aggregate_scene_for_segment(segment, scene_segments).cta
    IN  SelectSeq(segs, Flagged)

\* The ids of the model that contain "cta" in lower case.
CTA_IDS == {"cta_subscribe", "CTA-1"}

\* Line 2619
LooksLikeCta(h) == h.id \in CTA_IDS \/ h.type = "cta"

CTA_TEXT == <<"dang", "ky", "kenh", "de", "nhan", "video", "moi">>

\* Lines 2626-2629 and 2641-2654; scene.start is the segment's sourceStart.
CtaHighlight(segment) ==
    [id |-> "cta_subscribe", type |-> "sectionTitle",
     start |-> Round2(Max(segment.sourceStart,
                          segment.sourceStart + segment.duration - CTA_LEAD)),
     duration |-> Round2(Max(MIN_CTA_DURATION, Min(MAX_CTA_DURATION, segment.duration))),
     numeric |-> TRUE, keyword |-> <<>>, text |-> CTA_TEXT, importance |-> "",
     animation |-> "float"]

\* ensure_cta_highlight without the test for a highlight that looks like a
\* CTA.
ensure_cta_highlight_unseen(hs, cta_candidates) ==
    IF cta_candidates = <<>> THEN hs
    ELSE Append(hs, CtaHighlight(Last(cta_candidates)))

ensure_cta_highlight(hs, cta_candidates) ==
    IF \E i \in 1..Len(hs) : LooksLikeCta(hs[i]) THEN hs
    ELSE IF cta_candidates = <<>> THEN hs
    ELSE Append(hs, CtaHighlight(Last(cta_candidates)))

\* (item.get("type") or "").lower() == "sectiontitle"
IsSectionTitle(h) == Lower(h.type) = "sectiontitle"

\* Lines 1390-1395: float(item.get("start", 0.0)) raises TypeError on the
\* None that a highlight without numeric timing holds.
SectionStartsRaise(hs) == \E i \in 1..Len(hs) : IsSectionTitle(hs[i]) /\ ~hs[i].numeric

SectionStarts(hs) == {hs[i].start : i \in {j \in 1..Len(hs) : IsSectionTitle(hs[j])}}

SetMax(S) == CHOOSE x \in S : \A y \in S : y <= x

\* The state of the loop of lines 1400-1446: the cards inserted, the starts
\* of the section titles, and last_section (has_last FALSE for -inf).
SectionLoopStart(hs) ==
    [inserted |-> <<>>, existing_sections |-> SectionStarts(hs),
     has_last |-> SectionStarts(hs) # {},
     last_section |-> IF SectionStarts(hs) # {} THEN SetMax(SectionStarts(hs)) ELSE 0]

\* Lines 1403-1413: the tests on the summary before a window is collected.
IsSectionCandidate(state, summary) ==
    /\ ScoreAtLeast(summary, 65)
    /\ SummaryDuration(summary) >= MIN_SECTION_SCENE
    /\ summary.start >= MIN_SECTION_START
    /\ ~(state.has_last /\ summary.start < state.last_section + MIN_SECTION_GAP)
    /\ \A existing \in state.existing_sections :
           ~(summary.start - existing < MIN_SECTION_GAP \div 2
             /\ existing - summary.start < MIN_SECTION_GAP \div 2)

\* Lines 1423-1440: the card; its text is the phrase in title case.
SectionCard(segment, summary, window, phrase) ==
    [id |-> "section_" \o segment.id, type |-> "sectionTitle",
     start |-> Round2(window[1].start),
     duration |-> Round2(Min(Max(SummaryDuration(summary), MIN_CARD_DURATION),
                             MAX_CARD_DURATION)),
     numeric |-> TRUE, keyword |-> phrase, text |-> phrase,
     importance |-> "primary", animation |-> "float"]

\* Lines 1442-1446
WithCard(state, card) ==
    [inserted |-> Append(state.inserted, card),
     existing_sections |-> state.existing_sections \cup {card.start},
     has_last |-> TRUE, last_section |-> card.start]

\* Lines 1419-1421: no card without a phrase.
CardOfPhrase(state, segment, summary, window, phrase) ==
    IF phrase = <<>> THEN state
    ELSE WithCard(state, SectionCard(segment, summary, window, phrase))

\* Lines 1415-1417
CardOfWindow(state, segment, summary, window) ==
    IF window = <<>> THEN state
    ELSE CardOfPhrase(state, segment, summary, window,
                      derive_phrase_from_window(window, MAX_KEYWORD_TOKENS + 2))

\* One turn of the loop of lines 1400-1446.
SectionStep(state, segment, summary, scene_segments) ==
    IF ~IsSectionCandidate(state, summary) THEN state
    ELSE CardOfWindow(state, segment, summary,
                      collect_scene_window(scene_segments, summary.start, summary.end,
                                           SECTION_WINDOW_OVERLAP))

RECURSIVE SectionLoop(_, _, _)
SectionLoop(state, segs, scene_segments) ==
    IF segs = <<>> \/ Len(state.inserted) >= MAX_SECTION_CARDS THEN state
    ELSE SectionLoop(SectionStep(state, Head(segs),
                                 aggregate_scene_for_segment(Head(segs), scene_segments),
                                 scene_segments),
                     Tail(segs), scene_segments)

\* inject_section_cards (1374-1451): the cards inserted; segs are the
\* segments of segment_summaries.
inject_section_cards(hs, segs, scene_segments) ==
    IF segs = <<>> THEN <<>>
    ELSE SectionLoop(SectionLoopStart(hs), segs, scene_segments).inserted

\* Lines 1442 and 1448-1449: the highlights with the cards, sorted when a
\* card was inserted.
WithSectionCards(hs, inserted) ==
    IF inserted = <<>> THEN hs ELSE SortByStart(hs \o inserted)

\* One warning of compute_timing_warnings (2664-2674); `:.2f` rounds the
\* amount to the centisecond.
TimingWarning(prev, current) ==
    LET gap == current.sourceStart - (prev.sourceStart + prev.duration)
    IN  IF gap > TIMING_TOLERANCE
        THEN <<[kind |-> "Gap", amount |-> Round2(gap),
                prev |-> prev.id, current |-> current.id]>>
        ELSE IF gap < 0 - TIMING_TOLERANCE
        THEN <<[kind |-> "Overlap", amount |-> Round2(0 - gap),
                prev |-> prev.id, current |-> current.id]>>
        ELSE <<>>

RECURSIVE compute_timing_warnings(_)
compute_timing_warnings(segs) ==
    IF Len(segs) < 2 THEN <<>>
    ELSE TimingWarning(segs[1], segs[2]) \o compute_timing_warnings(Tail(segs))

\* Lines 2755-2761: meta.generatedSections counts the inserted cards.
MetaWithSections(m, inserted) ==
    IF inserted = <<>> THEN m
    ELSE [m EXCEPT !.present = TRUE, !.isDict = TRUE,
                   !.generatedSections = m.generatedSections + Len(inserted)]

\* Lines 2764-2765: setdefault keeps the warnings the plan already holds.
MetaWithWarnings(m, warnings) ==
    IF warnings = <<>> \/ m.hasWarnings THEN m
    ELSE [m EXCEPT !.present = TRUE, !.isDict = TRUE, !.hasWarnings = TRUE,
                   !.warnings = warnings]

\* plan.setdefault("meta", {}) returns a value without setdefault when the
\* plan holds a meta that is not an object.
MetaRaises(m, inserted, warnings) ==
    m.present /\ ~m.isDict /\ (inserted # <<>> \/ warnings # <<>>)

\* Lines 2755-2766 once the segments are enriched and the CTA is ensured.
EnrichResult(segs, with_cta, m, inserted, warnings) ==
    [outcome |-> IF MetaRaises(m, inserted, warnings) THEN "AttributeError"
                 ELSE "returned",
     segments |-> segs,
     highlights |-> WithSectionCards(with_cta, inserted),
     meta |-> IF MetaRaises(m, inserted, warnings) THEN m
              ELSE MetaWithWarnings(MetaWithSections(m, inserted), warnings),
     warnings |-> warnings]

\* inject_section_cards returns before it reads the highlights when no
\* segment has a scene summary.
EnrichHighlights(segs, with_cta, m, scene_segments) ==
    IF HasScene(segs, scene_segments) # <<>> /\ SectionStartsRaise(with_cta)
    THEN [outcome |-> "TypeError", segments |-> segs, highlights |-> with_cta,
          meta |-> m, warnings |-> <<>>]
    ELSE EnrichResult(segs, with_cta, m,
                      inject_section_cards(with_cta, HasScene(segs, scene_segments),
                                           scene_segments),
                      compute_timing_warnings(segs))

\* enrich_plan (2683-2766): [outcome, segments, highlights, meta, warnings].
enrich_plan(plan, scene_segments, broll_catalog, broll_threshold, rules) ==
    EnrichHighlights(EnrichSegments(plan.segments, scene_segments, broll_catalog,
                                    broll_threshold, rules),
                     ensure_cta_highlight(plan.highlights,
                                          CtaCandidates(plan.segments, scene_segments)),
                     plan.meta, scene_segments)

(***************************************************************************)
(* ensure_broll_from_highlights (enrich_plan.py 1644-1887): the keyword    *)
(* rules.  BROLL_RULES holds, in the order of the source, the rules with a *)
(* keyword that a text over the vocabulary can contain, each with those    *)
(* keywords; no word of the vocabulary contains a keyword other than       *)
(* itself.  supportingTexts are absent from every highlight.               *)
(***************************************************************************)
BROLL_RULES ==
    <<[keywords |-> {"strategy", "plan", "framework"}, id |-> "presentation_speaker"],
      [keywords |-> {"data", "metrics", "insights"}, id |-> "data_analysis"],
      [keywords |-> {"video"}, id |-> "creative_brainstorm"],
      [keywords |-> {"memory"}, id |-> "celebration_success"]>>

MAX_BROLL_REUSE == 2
DEFAULT_BROLL_DURATION == 60000
KEYWORD_CONFIDENCE == 300

\* The order of Python's str on the catalog ids of the rules.
BrollIdRank(id) ==
    CASE id = "celebration_success" -> 0
      [] id = "creative_brainstorm" -> 1
      [] id = "data_analysis" -> 2
      [] id = "presentation_speaker" -> 3

\* match_broll_candidates (1764-1770)
match_broll_candidates(text) ==
    LET Matches(rule) == \E i \in 1..Len(text) : text[i] \in rule.keywords
        matched == SelectSeq(BROLL_RULES, Matches)
    IN  [i \in 1..Len(matched) |-> matched[i].id]

\* locate_segment (1791-1797): the index of the first segment that covers
\* the timecode, 0 for None.
locate_segment(segs, timecode) ==
    LET covering == {i \in 1..Len(segs) :
                        /\ segs[i].sourceStart <= timecode
                        /\ timecode <= segs[i].sourceStart + segs[i].duration}
    IN  IF covering = {} THEN 0 ELSE CHOOSE i \in covering : \A j \in covering : i <= j

\* Lines 1800-1809: the ids of the segments under a section title.
section_locked_segments(segs, hs) ==
    {segs[locate_segment(segs, hs[i].start)].id :
        i \in {j \in 1..Len(hs) : /\ IsSectionTitle(hs[j])
                                  /\ hs[j].numeric
                                  /\ locate_segment(segs, hs[j].start) # 0}}
    \ {""}

\* catalog_items.get(candidate_id): the last item of the id, if any.
HasCatalogItem(catalog, id) == \E i \in 1..Len(catalog) : catalog[i].id = id
CatalogItem(catalog, id) ==
    catalog[CHOOSE i \in 1..Len(catalog) :
                /\ catalog[i].id = id
                /\ \A j \in 1..Len(catalog) : catalog[j].id = id => j <= i]

\* Lines 1847-1850 and 1860-1863: a still image is not used.
IsPlayable(item) ==
    ~(item.mediaType # "" /\ item.mediaType # "video" /\ ~item.isVideoFile)

\* Lines 1841-1855: the candidate of the fewest uses, then of the first id,
\* that the catalog holds, that can be played and that is under the cap.
ChosenCandidate(candidates, catalog, assigned_counts) ==
    LET usable == {c \in {candidates[i] : i \in 1..Len(candidates)} :
                      /\ HasCatalogItem(catalog, c)
                      /\ IsPlayable(CatalogItem(catalog, c))
                      /\ assigned_counts[c] < MAX_BROLL_REUSE}
    IN  IF usable = {} THEN ""
        ELSE CHOOSE c \in usable :
                 \A d \in usable :
                     TupleLeq(<<assigned_counts[c], BrollIdRank(c)>>,
                              <<assigned_counts[d], BrollIdRank(d)>>)

\* Lines 1865-1877: the assignment of the keyword path.
KeywordBroll(item, segment) ==
    [present |-> TRUE, id |-> item.id, mode |-> "full",
     confidence |-> KEYWORD_CONFIDENCE, reasons |-> <<"rule">>,
     hasDuration |-> TRUE,
     duration |-> Round3(Min(IF item.durationHintSeconds # 0
                                THEN item.durationHintSeconds
                                ELSE DEFAULT_BROLL_DURATION,
                             segment.duration))]

IsOtherNote(note) == note.text # NO_MATCH_NOTE

\* Lines 1878-1886: the notes without "No B-roll match" and with the note
\* of the item, unless the segment holds that note.
KeywordNotes(notes, item_note) ==
    IF \E i \in 1..Len(notes) : notes[i] = item_note
    THEN SelectSeq(notes, IsOtherNote)
    ELSE Append(SelectSeq(notes, IsOtherNote), item_note)

\* The state of the loop of lines 1811-1887: the segments and the uses of
\* each catalog id by this pass.
NoAssignedCounts == [id \in {BROLL_RULES[i].id : i \in 1..Len(BROLL_RULES)} |-> 0]

AssignBroll(state, at, item) ==
    [segments |-> [state.segments EXCEPT
                      ![at].broll = KeywordBroll(item, state.segments[at]),
                      ![at].notes = KeywordNotes(state.segments[at].notes,
                                                 Note("B-roll", item.id))],
     assigned_counts |-> [state.assigned_counts EXCEPT ![item.id] = @ + 1]]

\* Lines 1857-1887
BrollOfCandidate(state, at, catalog, chosen_id) ==
    IF chosen_id = "" THEN state
    ELSE AssignBroll(state, at, CatalogItem(catalog, chosen_id))

\* Lines 1827-1839: the text of the highlight's keyword and the segment's
\* label, and its candidates.
BrollOfText(state, at, catalog, full_text) ==
    IF full_text = <<>> THEN state
    ELSE BrollOfCandidate(state, at, catalog,
                          ChosenCandidate(match_broll_candidates(full_text), catalog,
                                          state.assigned_counts))

\* Lines 1816-1825: the segment of the highlight takes no B-roll when it has
\* one, when a section title covers it, or for a section title.
BrollOfSegment(state, highlight, at, locked, catalog) ==
    IF at = 0 THEN state
    ELSE IF state.segments[at].broll.present THEN state
    ELSE IF state.segments[at].id \in locked THEN state
    ELSE IF IsSectionTitle(highlight) THEN state
    ELSE BrollOfText(state, at, catalog, highlight.keyword \o state.segments[at].label)

\* One turn of the loop of lines 1811-1887.
BrollStep(state, highlight, locked, catalog) ==
    IF ~highlight.numeric THEN state
    ELSE BrollOfSegment(state, highlight,
                        locate_segment(state.segments, highlight.start), locked, catalog)

RECURSIVE BrollLoop(_, _, _, _)
BrollLoop(state, hs, locked, catalog) ==
    IF hs = <<>> THEN state
    ELSE BrollLoop(BrollStep(state, Head(hs), locked, catalog), Tail(hs), locked, catalog)

\* ensure_broll_from_highlights (1773-1887): the segments it leaves.
ensure_broll_from_highlights(segs, hs, catalog) ==
    IF catalog = <<>> \/ segs = <<>> \/ hs = <<>> THEN segs
    ELSE BrollLoop([segments |-> segs, assigned_counts |-> NoAssignedCounts],
                   hs, section_locked_segments(segs, hs), catalog).segments

(***************************************************************************)
(* ensure_motion_from_highlights (enrich_plan.py 1890-1992).  A highlight  *)
(* may carry an `animation`; supportingTexts are absent from every         *)
(* highlight, so that combined_text is the keyword.  The word sets are the *)
(* members of the source's sets that the vocabulary can meet; no word of   *)
(* the vocabulary contains one of them or a zoom-out keyword of the rules  *)
(* other than itself.                                                      *)
(***************************************************************************)
MOTION_ZOOM_IN_KEYWORDS == {"memory"}
MOTION_ANIMATION_HINTS == {"zoom", "pulse", "bounce", "fade"}
ALLOWED_MOTIONS == {"zoomIn", "zoomOut"}
DEFAULT_MOTION_FREQUENCY == 50

\* (highlight.get("animation") or "").lower()
AnimationHint(highlight) ==
    IF "animation" \in DOMAIN highlight THEN Lower(highlight.animation) ELSE ""

\* Line 1910
MaxMotions(segs, rules) ==
    Max(1, MotionCap(Len(segs), IF rules.hasFrequency THEN rules.motion_frequency
                                ELSE DEFAULT_MOTION_FREQUENCY))

\* Line 1911
AssignedCues(segs) == Cardinality({i \in 1..Len(segs) : segs[i].motionCue # ""})

\* Lines 1926-1959: the motion a highlight asks for.
MotionOfHighlight(highlight, rules, existing_cue, last_motion) ==
    LET combined_text == highlight.keyword
        zoom_out_hit == \E i \in 1..Len(combined_text) :
                            combined_text[i] \in rules.zoom_out_keywords
        has_number == \E i \in 1..Len(combined_text) : HasDigit(combined_text[i])
        Alternate == IF last_motion = "zoomIn" THEN "zoomOut" ELSE "zoomIn"
    IN  IF highlight.importance = "primary"
        THEN (IF zoom_out_hit /\ last_motion = "zoomIn" THEN "zoomOut"
              ELSE IF has_number THEN "zoomIn"
              ELSE Alternate)
        ELSE IF has_number THEN "zoomIn"
        ELSE IF \E i \in 1..Len(combined_text) :
                    combined_text[i] \in MOTION_ZOOM_IN_KEYWORDS THEN "zoomIn"
        ELSE IF AnimationHint(highlight) \in MOTION_ANIMATION_HINTS THEN "zoomIn"
        ELSE IF zoom_out_hit THEN "zoomOut"
        ELSE IF existing_cue \in ALLOWED_MOTIONS THEN existing_cue
        ELSE Alternate

IsNoAssignedNote(note) == note.text # "Motion cue assigned"

\* Lines 1978-1985: the note names the motion and the highlight's text.
MotionNote(highlight, motion) ==
    Note("Motion cue", <<motion, OrElse(highlight.text, highlight.keyword)>>)

\* Lines 1973-1988: the notes without "Motion cue assigned", and with the
\* note of the highlight unless they hold it.
MotionNotesOf(notes, note_text) ==
    LET kept == SelectSeq(notes, IsNoAssignedNote)
    IN  IF \E i \in 1..Len(kept) : kept[i] = note_text THEN kept
        ELSE Append(kept, note_text)

\* Lines 1973-1992
AssignMotion(state, at, highlight, motion) ==
    [segments |-> [state.segments EXCEPT
                      ![at].motionCue = motion,
                      ![at].notes = MotionNotesOf(state.segments[at].notes,
                                                  MotionNote(highlight, motion))],
     assigned |-> IF state.segments[at].motionCue = "" THEN state.assigned + 1
                  ELSE state.assigned,
     last_motion |-> motion,
     stopped |-> FALSE]

\* Lines 1961-1971: a segment keeps a cue that is the motion asked for.
MotionOfSegment(state, at, highlight, motion) ==
    IF state.segments[at].motionCue = motion THEN state
    ELSE AssignMotion(state, at, highlight, motion)

\* One turn of the loop of lines 1914-1992; stopped is the break of 1924.
MotionStep(state, highlight, rules) ==
    LET at == locate_segment(state.segments, highlight.start)
    IN  IF ~highlight.numeric \/ at = 0 THEN state
        ELSE IF state.assigned >= MaxMotions(state.segments, rules)
                /\ state.segments[at].motionCue = ""
        THEN [state EXCEPT !.stopped = TRUE]
        ELSE MotionOfSegment(state, at, highlight,
                             MotionOfHighlight(highlight, rules,
                                               state.segments[at].motionCue,
                                               state.last_motion))

RECURSIVE MotionLoop(_, _, _)
MotionLoop(state, hs, rules) ==
    IF hs = <<>> \/ state.stopped THEN state
    ELSE MotionLoop(MotionStep(state, Head(hs), rules), Tail(hs), rules)

\* ensure_motion_from_highlights (1890-1992): the segments it leaves.
ensure_motion_from_highlights(segs, hs, rules) ==
    IF segs = <<>> \/ hs = <<>> THEN segs
    ELSE MotionLoop([segments |-> segs, assigned |-> AssignedCues(segs),
                     last_motion |-> "", stopped |-> FALSE], hs, rules).segments

(***************************************************************************)
(* The passes of main between enrich_plan and enforce_highlight_spacing,   *)
(* and trim_highlights_to_segments (enrich_plan.py 1046-1235, 2038-2060).  *)
(* A window is a sequence of scene entries; highlight_windows holds, for   *)
(* each position of the highlight list that snap_highlights_to_transcript  *)
(* walked, the window it used, <<>> for a position without an entry.       *)
(***************************************************************************)
SNAP_MIN_OVERLAP == 600
SNAP_MIN_DURATION == 6000

\* Lines 1082-1094: the first entry of the largest positive overlap.
BestOverlap(scene_segments, start, end) ==
    LET Overlap(i) == overlap_seconds(start, end, scene_segments[i].start,
                                      scene_segments[i].end)
        valid == {i \in 1..Len(scene_segments) :
                     /\ scene_segments[i].end > scene_segments[i].start
                     /\ Overlap(i) > 0}
    IN  IF valid = {} THEN <<>>
        ELSE <<scene_segments[CHOOSE i \in valid :
                   \A j \in valid : Overlap(j) < Overlap(i)
                                    \/ (Overlap(j) = Overlap(i) /\ i <= j)]>>

\* Lines 1080-1094: the window of a highlight with numeric timing.
SnapWindowOf(scene_segments, start, end) ==
    OrElse(collect_scene_window(scene_segments, start, end, SNAP_MIN_OVERLAP),
           BestOverlap(scene_segments, start, end))

\* Lines 1067-1102: <<>> when the highlight is left as it is.
SnapWindow(scene_segments, highlight) ==
    IF ~highlight.numeric THEN <<>>
    ELSE LET window == SnapWindowOf(scene_segments, highlight.start,
                           highlight.start
                           + (IF highlight.duration <= 0 THEN SNAP_MIN_DURATION
                              ELSE highlight.duration))
         IN  IF window # <<>> /\ Last(window).end <= window[1].start THEN <<>>
             ELSE window

\* Lines 1104-1105
Snapped(highlight, window) ==
    IF window = <<>> THEN highlight
    ELSE [highlight EXCEPT
             !.start = Round2(window[1].start),
             !.duration = Round2(Max(SNAP_MIN_DURATION,
                                     Last(window).end - window[1].start))]

SnapWindows(hs, scene_segments) ==
    IF scene_segments = <<>> THEN [i \in 1..Len(hs) |-> <<>>]
    ELSE [i \in 1..Len(hs) |-> SnapWindow(scene_segments, hs[i])]

NoWindows(windows) == \A i \in 1..Len(windows) : windows[i] = <<>>

\* snap_highlights_to_transcript (1046-1111): the highlights it leaves; the
\* list is sorted when a highlight was snapped.
snap_highlights_to_transcript(hs, windows) ==
    IF NoWindows(windows) THEN hs
    ELSE SortByStart([i \in 1..Len(hs) |-> Snapped(hs[i], windows[i])])

\* The ids of the model that start with "cta_".
CTA_PREFIX_IDS == {"cta_subscribe"}

\* str(highlight.get("keyword") or highlight.get("text") or "")
KeywordOrText(highlight) == OrElse(highlight.keyword, highlight.text)

\* needs_override (1154-1162): transcript_tokens are the tokens of the
\* window's entries.
needs_override(value, transcript_tokens) ==
    \/ value = <<>>
    \/ /\ transcript_tokens # {}
       /\ \E i \in 1..Len(value) : value[i] \notin transcript_tokens

TranscriptTokens(window) ==
    UNION {{window[i].tokens[j] : j \in 1..Len(window[i].tokens)} : i \in 1..Len(window)}

\* Lines 1168-1175: keyword and text replaced by the candidate phrase.
Overridden(highlight, candidate_phrase, transcript_tokens) ==
    [highlight EXCEPT
        !.keyword = IF needs_override(highlight.keyword, transcript_tokens)
                    THEN candidate_phrase ELSE @,
        !.text = IF needs_override(highlight.text, transcript_tokens)
                 THEN candidate_phrase ELSE @]

\* Lines 1177-1181
KeptIfMeaningful(highlight) ==
    IF keyword_is_meaningful(KeywordOrText(highlight)) THEN <<highlight>> ELSE <<>>

\* Lines 1139-1181: a highlight with a window and an id that is not a CTA's.
RefreshWithPhrase(highlight, window, candidate_phrase) ==
    IF candidate_phrase = <<>>
    THEN (IF IsSectionTitle(highlight)
             \/ keyword_is_meaningful(highlight.keyword)
             \/ keyword_is_meaningful(highlight.text)
          THEN <<highlight>> ELSE <<>>)
    ELSE IF Lower(highlight.type) = "icon" THEN <<>>
    ELSE KeptIfMeaningful(Overridden(highlight, candidate_phrase,
                                     TranscriptTokens(window)))

\* One turn of the loop of lines 1127-1181: the highlight, or nothing.
RefreshStep(highlight, window) ==
    IF window = <<>>
    THEN (IF IsSectionTitle(highlight)
             \/ keyword_is_meaningful(KeywordOrText(highlight))
          THEN <<highlight>> ELSE <<>>)
    ELSE IF highlight.id \in CTA_PREFIX_IDS THEN <<highlight>>
    ELSE RefreshWithPhrase(highlight, window,
                           derive_phrase_from_window(window, MAX_KEYWORD_TOKENS + 2))

RECURSIVE RefreshLoop(_, _, _)
RefreshLoop(hs, windows, idx) ==
    IF idx > Len(hs) THEN <<>>
    ELSE RefreshStep(hs[idx], windows[idx]) \o RefreshLoop(hs, windows, idx + 1)

\* refresh_highlight_phrases (1114-1183): the window of a highlight is the
\* one recorded for its position, which is the position before the sort of
\* snap_highlights_to_transcript.
refresh_highlight_phrases(hs, windows) ==
    IF hs = <<>> \/ NoWindows(windows) THEN hs
    ELSE RefreshLoop(hs, windows, 1)

KEY_THEME == <<"key", "theme">>
KEY_THEME_OVERVIEW == <<"key", "theme", "overview">>

\* Lines 1203-1212: the phrase a section title is decorated from.
BasePhrase(highlight) ==
    OrElse(select_keyword_phrase(KeywordOrText(highlight), MAX_KEYWORD_TOKENS + 1),
           OrElse(condense_text(KeywordOrText(highlight), MAX_KEYWORD_TOKENS + 1),
                  KEY_THEME))

\* Lines 1220-1225: the title with the suffix of the attempt; a suffix that
\* the title holds is not repeated (no suffix is part of another word of
\* the vocabulary).
DecoratedCandidate(base_title, seed, attempt) ==
    LET suffix == Lower(SECTION_TITLE_SUFFIXES[((seed + attempt)
                                               % Len(SECTION_TITLE_SUFFIXES)) + 1])
    IN  IF \E i \in 1..Len(base_title) : base_title[i] = suffix THEN base_title
        ELSE Append(base_title, suffix)

\* The while loop of lines 1217-1231, from the attempt.
RECURSIVE ChosenText(_, _, _, _)
ChosenText(base_title, seed, attempt, used_texts) ==
    IF attempt >= Len(SECTION_TITLE_SUFFIXES) * 2 THEN OrElse(base_title, KEY_THEME_OVERVIEW)
    ELSE IF DecoratedCandidate(base_title, seed, attempt) \notin used_texts
         THEN DecoratedCandidate(base_title, seed, attempt)
    ELSE ChosenText(base_title, seed, attempt + 1, used_texts)

DecorateWith(highlight, chosen_text) ==
    [highlight EXCEPT !.text = chosen_text, !.keyword = chosen_text]

RECURSIVE DecorateLoop(_, _)
RECURSIVE DecorateNext(_, _, _)
DecorateNext(hs, used_texts, chosen_text) ==
    <<DecorateWith(Head(hs), chosen_text)>>
    \o DecorateLoop(Tail(hs), used_texts \cup {chosen_text})

DecorateLoop(hs, used_texts) ==
    IF hs = <<>> THEN <<>>
    ELSE IF ~IsSectionTitle(Head(hs)) THEN <<Head(hs)>> \o DecorateLoop(Tail(hs), used_texts)
    ELSE DecorateNext(hs, used_texts,
                      ChosenText(BasePhrase(Head(hs)), OrdSum(Head(hs).id), 0, used_texts))

\* decorate_section_highlights (1186-1235)
decorate_section_highlights(hs) == DecorateLoop(hs, {})

TRIM_MARGIN == 2500

\* Lines 2044-2051
LatestEnd(segs) ==
    SetMax({0} \cup {segs[i].sourceStart + Max(0, segs[i].duration) : i \in 1..Len(segs)})

\* trim_highlights_to_segments with the highlights that reach over the cutoff
\* cut to it.
trim_highlights_to_segments_clipped(segs, hs) ==
    LET cutoff == LatestEnd(segs) + TRIM_MARGIN
        InReach(highlight) == highlight.numeric /\ highlight.start <= cutoff
        Clip(highlight) ==
            [highlight EXCEPT !.duration = Min(highlight.duration, cutoff - highlight.start)]
        kept == SortByStart(SelectSeq(hs, InReach))
    IN  IF segs = <<>> \/ hs = <<>> THEN hs
        ELSE [i \in 1..Len(kept) |-> Clip(kept[i])]

\* trim_highlights_to_segments (2038-2060)
trim_highlights_to_segments(segs, hs) ==
    LET InReach(highlight) ==
            highlight.numeric /\ highlight.start <= LatestEnd(segs) + TRIM_MARGIN
    IN  IF segs = <<>> \/ hs = <<>> THEN hs
        ELSE SortByStart(SelectSeq(hs, InReach))

(***************************************************************************)
(* Values of the variables a specification does not use.                   *)
(***************************************************************************)
NoPlan == [segments |-> <<>>, highlights |-> <<>>, meta |-> NoMeta]
NoRaw == Null

\* The normalizer has not been called.
IdleNormalizer == raw = NoRaw /\ ret = Null /\ outcome = "none"

\* motion_rules = {}: `if motion_rules:` fails and every get takes its
\* default.  Frequencies and rates are counted in hundredths.
NoMotionRules ==
    [empty |-> TRUE, hasFrequency |-> FALSE, motion_frequency |-> 0,
     highlight_rate |-> 0, zoom_out_keywords |-> {}]

\* sfx_catalog = None: the files of the catalog's items, in lower case.
NoSfxCatalog == [supplied |-> FALSE, items |-> {}]

\* The run has no motion rules and no SFX catalog.
IdleAssets == motion_rules = NoMotionRules /\ sfx_catalog = NoSfxCatalog

\* No plan is loaded.
IdlePlan ==
    /\ segments = <<>> /\ highlights = <<>> /\ meta = NoMeta /\ prior = NoPlan
    /\ scene_map = <<>> /\ highlight_windows = <<>>
    /\ IdleAssets

ThePlan == [segments |-> segments, highlights |-> highlights, meta |-> meta]

IdNames == <<"h01", "h02", "h03", "h04", "h05", "h06", "h07", "h08", "h09",
             "h10", "h11", "h12", "h13", "h14", "h15", "h16", "h17", "h18",
             "h19", "h20", "h21", "h22", "h23", "h24", "h25", "h26">>

(***************************************************************************)
(* SpecTransition: normalize_transition applied to raw transition values:  *)
(* names, objects over the alias names with durations and intensities      *)
(* below, inside and above the clamps, None and a value of another type.   *)
(***************************************************************************)
RawTransitionNames == {"", "cut", "fade", "FADE", "slide", "slide-left",
                       "Slide-Left", "zoom", "punch", "grow", "spin",
                       "soft-focus", "wipe"}
RawDurations == {0, -5000, 500, 10000, 12345, 50000}
RawIntensities == {0, 100, 3333, 90000}

RawTransitionObjects ==
    {[NoFields EXCEPT !.type = ty, !.style = st, !.direction = di, !.dir = dr,
                      !.typeIsStr = tis,
                      !.hasDuration = hd, !.duration = IF hd THEN du ELSE 0,
                      !.hasLength = hl, !.length = IF hl THEN 20000 ELSE 0,
                      !.hasIntensity = hi, !.intensity = IF hi THEN it ELSE 0,
                      !.hasStrength = hs, !.strength = IF hs THEN 2000 ELSE 0] :
        ty \in RawTransitionNames, st \in {"", "dissolve"},
        di \in {"", "up", "diagonal"}, dr \in {"", "left"},
        tis \in BOOLEAN,
        hd \in BOOLEAN, du \in RawDurations, hl \in BOOLEAN,
        hi \in BOOLEAN, it \in RawIntensities, hs \in BOOLEAN}

RawTransitions ==
    {Null, Other} \cup {Str(n) : n \in RawTransitionNames}
    \cup {Dict(d) : d \in RawTransitionObjects}

InitTransition ==
    /\ pc = "start"
    /\ IdlePlan
    /\ raw \in RawTransitions
    /\ ret = Null
    /\ outcome = "none"

NormalizeTransition ==
    /\ pc = "start"
    /\ pc' = "normalized"
    /\ LET result == normalize_transition(raw)
       IN  /\ ret' = (IF result = Raised THEN Null ELSE result)
           /\ outcome' = (IF result = Raised THEN "AttributeError" ELSE "returned")
    /\ UNCHANGED <<segments, highlights, meta, prior, raw, scene_map, highlight_windows, motion_rules, sfx_catalog>>

NextTransition == NormalizeTransition

SpecTransition == InitTransition /\ [][NextTransition]_vars

\* C7: for every raw transition value that is a name or an object,
\* normalize_transition returns a transition whose type is in the closed set; a cut carries nothing
\* but its type; every other type carries a duration within [0.1, 3.0] s;
\* direction appears only on slide and is one of left/right/up/down; intensity
\* appears only on zoom/scale/rotate/blur and is within [0.05, 0.6]; and
\* {type: fade, duration: 1.0} yields {type: crossfade, duration: 1.0}.
TransitionShape ==
    (pc = "normalized" /\ raw.t \in {"str", "dict"}) =>
        /\ outcome = "returned"
        /\ ret.t = "dict"
        /\ LET f == ret.d IN
           /\ f.type \in TRANSITION_TYPES
           /\ f.style = "" /\ f.dir = "" /\ ~f.hasLength /\ ~f.hasStrength
           /\ f.type = "cut" => f = [NoFields EXCEPT !.type = "cut"]
           /\ f.type # "cut" =>
                /\ f.hasDuration
                /\ f.duration >= MIN_TRANSITION_DURATION
                /\ f.duration <= MAX_TRANSITION_DURATION
           /\ f.direction # "" =>
                /\ f.type = "slide"
                /\ f.direction \in {"left", "right", "up", "down"}
           /\ f.hasIntensity =>
                /\ f.type \in {"zoom", "scale", "rotate", "blur"}
                /\ f.intensity >= MIN_INTENSITY
                /\ f.intensity <= MAX_INTENSITY
           /\ (raw.t = "dict" /\ Lower(raw.d.type) = "fade"
               /\ raw.d.hasDuration /\ raw.d.duration = TicksPerSecond) =>
                /\ f.type = "crossfade"
                /\ f.duration = TicksPerSecond
                /\ f.direction = "" /\ ~f.hasIntensity

(***************************************************************************)
(* The two passes of the Schema Normalizer: normalize_plan on the raw      *)
(* plan, and normalize_plan on the plan the first pass returned.           *)
(***************************************************************************)
NormalizePlan ==
    /\ pc = "start"
    /\ pc' = "normalized"
    /\ ret' = normalize_plan(raw).plan
    /\ outcome' = normalize_plan(raw).outcome
    /\ UNCHANGED <<segments, highlights, meta, prior, raw, scene_map, highlight_windows, motion_rules, sfx_catalog>>

Renormalize ==
    /\ pc = "normalized"
    /\ outcome = "returned"
    /\ pc' = "renormalized"
    /\ raw' = ret
    /\ ret' = normalize_plan(ret).plan
    /\ outcome' = normalize_plan(ret).outcome
    /\ UNCHANGED <<segments, highlights, meta, prior, scene_map, highlight_windows, motion_rules, sfx_catalog>>

(***************************************************************************)
(* SpecSegments: normalize_plan on raw plans of two segments, s1 drawn     *)
(* from every combination of the timing keys (missing, null, zero,         *)
(* negative, positive, finer than a millisecond) and s2 from four entries. *)
(***************************************************************************)
RawSegmentDurations == {Absent, Null, Num(0), Num(-10000), Num(25000)}
RawSegmentEnds == {Absent, Num(50000), Num(5000)}
RawSegmentStarts == {Absent, Num(0), Num(20000)}
RawSegmentSourceStarts == {Absent, Num(10000)}
RawSegmentLengths == {Absent, Num(30004), Num(-10000)}

FirstRawSegments ==
    {[NoSegmentFields EXCEPT !.id = Str("s1"), !.duration = d, !.end = e,
                             !.start = st, !.sourceStart = ss, !.length = l] :
        d \in RawSegmentDurations, e \in RawSegmentEnds, st \in RawSegmentStarts,
        ss \in RawSegmentSourceStarts, l \in RawSegmentLengths}

SecondRawSegments ==
    {[NoSegmentFields EXCEPT !.id = Str("s2"), !.sourceStart = Num(70000)],
     [NoSegmentFields EXCEPT !.id = Str("s2"), !.length = Num(12346)],
     [NoSegmentFields EXCEPT !.id = Str("s2"), !.start = Num(5000), !.duration = Other,
                             !.end = Num(40000), !.length = Num(90000)],
     [NoSegmentFields EXCEPT !.id = Str("s2"), !.isDict = FALSE]}

InitSegments ==
    /\ pc = "start"
    /\ IdlePlan
    /\ \E g1 \in FirstRawSegments, g2 \in SecondRawSegments :
          raw = [EmptyRawPlan EXCEPT !.segments = <<g1, g2>>]
    /\ ret = EmptyRawPlan
    /\ outcome = "none"

NextSegments == NormalizePlan

SpecSegments == InitSegments /\ [][NextSegments]_vars

\* C8: for each raw segment, normalize_plan takes the duration from the first
\* positive value among duration, end - start and length, in that order (stored
\* to the millisecond), and drops the segment when none is positive; the raw
\* segment {start: 0, end: 5} comes out with sourceStart 0 and duration 5.
SegmentDurationPriority ==
    pc = "normalized" =>
        /\ outcome = "returned"
        /\ \A i \in 1..Len(raw.segments) :
             LET g == raw.segments[i]
                 NumOf(v) == IF v.t = "num" THEN v.n ELSE 0
                 source_start == IF g.sourceStart.t # "absent" THEN NumOf(g.sourceStart)
                                 ELSE NumOf(g.start)
                 start == IF g.start.t # "absent" THEN NumOf(g.start) ELSE source_start
                 first_positive ==
                     IF NumOf(g.duration) > 0 THEN NumOf(g.duration)
                     ELSE IF NumOf(g.end) - start > 0 THEN NumOf(g.end) - start
                     ELSE IF NumOf(g.length) > 0 THEN NumOf(g.length)
                     ELSE 0
                 outs == {j \in 1..Len(ret.segments) : ret.segments[j].id = g.id}
             IN  /\ (~g.isDict \/ first_positive <= 0) => outs = {}
                 /\ (g.isDict /\ first_positive > 0) =>
                       /\ Cardinality(outs) = 1
                       /\ \A j \in outs :
                            /\ ret.segments[j].duration = Num(Round3(first_positive))
                            /\ ret.segments[j].sourceStart = Num(Round3(source_start))
                 /\ g = [NoSegmentFields EXCEPT !.id = Str("s1"), !.start = Num(0),
                                                !.end = Num(5 * TicksPerSecond)] =>
                       \E j \in outs :
                            /\ ret.segments[j].sourceStart = Num(0)
                            /\ ret.segments[j].duration = Num(5 * TicksPerSecond)

SegmentDurationWitness ==
    /\ pc = "normalized"
    /\ raw.segments[1].duration = Num(0)
    /\ raw.segments[1].start = Num(20000)
    /\ raw.segments[1].end = Num(50000)
    /\ raw.segments[1].length = Num(30004)
    /\ raw.segments[2] = [NoSegmentFields EXCEPT !.id = Str("s2"), !.sourceStart = Num(70000)]
    /\ Len(ret.segments) = 1
    /\ ret.segments[1].id = Str("s1")
    /\ ret.segments[1].duration = Num(30000)

(***************************************************************************)
(* SpecNormalize: the two passes on raw plans of up to two segment entries *)
(* and up to two highlight entries, well formed and malformed, under       *)
(* "highlights" or the legacy "actions", and on a raw value that is not an *)
(* object.                                                                 *)
(***************************************************************************)
RawSegmentEntries ==
    {[NoSegmentFields EXCEPT !.sourceStart = Num(100000), !.duration = Num(10000),
                             !.timelineStart = Num(0)],
     [NoSegmentFields EXCEPT !.sourceStart = Num(0), !.duration = Num(10000),
                             !.timelineStart = Num(50000)],
     [NoSegmentFields EXCEPT !.start = Num(0), !.end = Num(50000),
                             !.label = Text(<<"epic", "launch">>)],
     [NoSegmentFields EXCEPT !.sourceStart = Num(20000), !.duration = Num(4)],
     [NoSegmentFields EXCEPT !.sourceStart = Num(30000), !.duration = Num(10000),
                             !.label = Num(5)],
     [NoSegmentFields EXCEPT !.isDict = FALSE],
     [NoSegmentFields EXCEPT !.sourceStart = Num(40000), !.duration = Num(20000),
                             !.transitionIn = Dict([NoFields EXCEPT !.typeIsStr = FALSE])],
     [NoSegmentFields EXCEPT !.id = Str("s1"), !.sourceStart = Num(40000),
                             !.duration = Num(20000), !.title = Text(<<"the", "launch">>),
                             !.transitionIn = Str("fade")]}

RawHighlightEntries ==
    {[NoHighlightFields EXCEPT !.type = Str("typewriter"), !.start = Num(10000),
                               !.text = Text(<<"epic", "launch">>)],
     [NoHighlightFields EXCEPT !.type = Str("noteBox"), !.start = Num(30000),
                               !.duration = Num(90000),
                               !.text = Text(<<"the", "epic", "launch">>)],
     [NoHighlightFields EXCEPT !.id = Str("h1"), !.type = Str("sectionTitle"),
                               !.end = Num(20000), !.title = Text(<<"launch">>)],
     [NoHighlightFields EXCEPT !.text = Num(5)],
     [NoHighlightFields EXCEPT !.isDict = FALSE],
     [NoHighlightFields EXCEPT !.type = Str("caption"), !.keyword = Text(<<"epic">>)],
     [NoHighlightFields EXCEPT !.icon = Text(<<"launch">>), !.start = Num(-10000),
                               !.duration = Num(5000), !.text = Text(<<"is", "epic">>)],
     [NoHighlightFields EXCEPT !.type = Num(5), !.start = Num(20000),
                               !.text = Text(<<"um">>)]}

UpToTwo(S) == {<<>>} \cup {<<a>> : a \in S} \cup {<<a, b>> : a, b \in S}

RawMetas == {NoMeta, [NoMeta EXCEPT !.present = TRUE, !.isDict = TRUE]}

RawPlans ==
    {[EmptyRawPlan EXCEPT !.isDict = FALSE]}
    \cup {[EmptyRawPlan EXCEPT !.segments = gs, !.highlights = hs, !.meta = m] :
            gs \in UpToTwo(RawSegmentEntries), hs \in UpToTwo(RawHighlightEntries),
            m \in RawMetas}
    \cup {[EmptyRawPlan EXCEPT !.segmentsIsList = FALSE, !.highlightsKey = k,
                               !.highlights = hs] :
            k \in {"actions", "none"}, hs \in UpToTwo(RawHighlightEntries)}

InitNormalize ==
    /\ pc = "start"
    /\ IdlePlan
    /\ raw \in RawPlans
    /\ ret = EmptyRawPlan
    /\ outcome = "none"

NextNormalize == NormalizePlan \/ Renormalize

SpecNormalize == InitNormalize /\ [][NextNormalize]_vars

\* C2: the Schema Normalizer is idempotent: for every raw plan that is a
\* record, normalize_plan of the plan normalize_plan returned returns that same
\* plan (same segments in the same order, same highlights with the same fields).
NormalizeIdempotent ==
    pc = "renormalized" => (outcome = "returned" /\ ret = raw)

\* C9: normalize_plan fails only when the top-level raw value is not a record;
\* for every record, whatever its segment and highlight entries hold, it
\* returns a plan (a malformed entry is skipped, no exception leaves the call).
NormalizeFailsOnlyOnNonRecord ==
    pc = "normalized" =>
        /\ ~raw.isDict => outcome = "ValueError"
        /\ raw.isDict => outcome = "returned"

(***************************************************************************)
(* main (enrich_plan.py 2774-2921): the plan is loaded from the file the   *)
(* normalizer wrote, or from any plan file, and handed to the passes in    *)
(* the order of lines 2866-2910.  pc names the pass that ran last.  The    *)
(* run has the B-roll catalog below, the default threshold, no highlight   *)
(* catalog and no SRT file.                                                *)
(***************************************************************************)
BrollCatalog ==
    <<[id |-> "data_analysis", topics |-> {"analytics"},
       keywords |-> {"data", "metrics"}, mood |-> TRUE, mediaType |-> "video",
       isVideoFile |-> TRUE, orientation |-> "landscape", duration |-> 120000,
       durationHintSeconds |-> 60000],
      [id |-> "presentation_speaker", topics |-> {"strategy"},
       keywords |-> {"strategy"}, mood |-> FALSE, mediaType |-> "video",
       isVideoFile |-> TRUE, orientation |-> "portrait", duration |-> 120000,
       durationHintSeconds |-> 0],
      [id |-> "creative_brainstorm", topics |-> {"creative"},
       keywords |-> {"video"}, mood |-> FALSE, mediaType |-> "image",
       isVideoFile |-> FALSE, orientation |-> "landscape", duration |-> 120000,
       durationHintSeconds |-> 40000]>>

\* No call has raised.
Running == outcome \in {"none", "returned"}

Words(v) == IF v.t = "text" THEN [i \in 1..Len(v.w) |-> Lower(v.w[i])] ELSE <<>>

\* load_json of a segment the normalizer wrote.
LoadedSegment(g) ==
    [id |-> g.id.s, sourceStart |-> g.sourceStart.n, duration |-> g.duration.n,
     label |-> Words(Or(g.label, g.title)), kind |-> "", broll |-> NoBroll,
     motionCue |-> "", notes |-> <<>>, hasSfxHints |-> FALSE, sfxHints |-> {}]

\* load_json of a highlight the normalizer wrote; make_plan.py 1414-1419
\* gives a noteBox the importance "primary".
LoadedHighlight(h) ==
    [id |-> h.id.s, type |-> IF h.type.t = "str" THEN h.type.s ELSE "",
     start |-> h.start.n, duration |-> h.duration.n, numeric |-> TRUE,
     keyword |-> Words(h.keyword), text |-> Words(h.text),
     importance |-> IF h.type = Str("noteBox") THEN "primary" ELSE ""]

\* Line 2839: plan = load_json(args.plan_path), the file make_plan wrote.
LoadPlan ==
    /\ pc = "normalized"
    /\ outcome = "returned"
    /\ pc' = "loaded"
    /\ segments' = [i \in 1..Len(ret.segments) |-> LoadedSegment(ret.segments[i])]
    /\ highlights' = [i \in 1..Len(ret.highlights) |-> LoadedHighlight(ret.highlights[i])]
    /\ meta' = ret.meta
    /\ prior' = ThePlan
    /\ UNCHANGED <<raw, ret, outcome, scene_map, highlight_windows, motion_rules, sfx_catalog>>

\* Lines 2866-2873
EnrichPlan ==
    /\ pc = "loaded"
    /\ Running
    /\ pc' = "enriched"
    /\ prior' = ThePlan
    /\ \E result \in {enrich_plan(ThePlan, scene_map, BrollCatalog, BROLL_THRESHOLD,
                                       motion_rules)} :
           /\ segments' = result.segments
           /\ highlights' = result.highlights
           /\ meta' = result.meta
           /\ outcome' = result.outcome
    /\ UNCHANGED <<raw, ret, scene_map, highlight_windows, motion_rules, sfx_catalog>>

\* Lines 2897-2901
SnapHighlightsToTranscript ==
    /\ pc = "enriched"
    /\ Running
    /\ pc' = "snapped"
    /\ prior' = ThePlan
    /\ \E windows \in {SnapWindows(highlights, scene_map)} :
           /\ highlight_windows' = windows
           /\ highlights' = snap_highlights_to_transcript(highlights, windows)
    /\ outcome' = "returned"
    /\ UNCHANGED <<segments, meta, raw, ret, scene_map, motion_rules, sfx_catalog>>

\* Line 2902
RefreshHighlightPhrases ==
    /\ pc = "snapped"
    /\ pc' = "refreshed"
    /\ prior' = ThePlan
    /\ highlights' = refresh_highlight_phrases(highlights, highlight_windows)
    /\ UNCHANGED <<segments, meta, raw, ret, outcome, scene_map, highlight_windows, motion_rules, sfx_catalog>>

\* Line 2903
DecorateSectionHighlights ==
    /\ pc = "refreshed"
    /\ pc' = "decorated"
    /\ prior' = ThePlan
    /\ highlights' = decorate_section_highlights(highlights)
    /\ UNCHANGED <<segments, meta, raw, ret, outcome, scene_map, highlight_windows, motion_rules, sfx_catalog>>

(***************************************************************************)
(* SpecSpacing: enforce_highlight_spacing applied to the highlight lists   *)
(* of up to MaxSpacingHighlights entries drawn from a grid that makes each *)
(* branch of the resolver and both directions of the rounding happen.      *)
(***************************************************************************)
MaxSpacingHighlights == 3

SpacingStarts == {100000, 100049, 105051, 107500, 120000}
SpacingDurations == {4000, 30049}
SpacingTypes == {"noteBox", "sectionTitle"}

SpacingChoices ==
    [type : SpacingTypes, start : SpacingStarts, duration : SpacingDurations,
     numeric : {TRUE}]
    \cup {[type |-> "noteBox", start |-> 0, duration |-> 0, numeric |-> FALSE]}

SpacingInputs ==
    UNION {[1..n -> SpacingChoices] : n \in 0..MaxSpacingHighlights}

MakeHighlight(i, c) ==
    [id |-> IdNames[i], type |-> c.type, start |-> c.start,
     duration |-> c.duration, numeric |-> c.numeric,
     keyword |-> <<"epic", "launch">>, text |-> <<>>,
     importance |-> "primary"]

InitSpacing ==
    /\ pc = "decorated"
    /\ segments = <<>>
    /\ \E input \in SpacingInputs :
           highlights = [i \in 1..Len(input) |-> MakeHighlight(i, input[i])]
    /\ meta = NoMeta
    /\ prior = NoPlan
    /\ scene_map = <<>>
    /\ highlight_windows = <<>>
    /\ IdleNormalizer
    /\ IdleAssets

\* main, line 2904: enforce_highlight_spacing(enriched_plan)
EnforceHighlightSpacing ==
    /\ pc = "decorated"
    /\ pc' = "spaced"
    /\ prior' = ThePlan
    /\ highlights' = enforce_highlight_spacing(highlights)
    /\ outcome' = "returned"
    /\ UNCHANGED <<segments, meta, raw, ret, scene_map, highlight_windows, motion_rules, sfx_catalog>>

NextSpacing == EnforceHighlightSpacing

SpecSpacing == InitSpacing /\ [][NextSpacing]_vars

\* C1: after enforce_highlight_spacing, any two highlights A before B of the
\* output satisfy B.start >= A.start + A.duration + 0.2 s, with the stored
\* duration of A.
SpacingInvariant ==
    pc = "spaced" =>
        \A i, j \in 1..Len(highlights) :
            i < j => highlights[j].start >=
                        highlights[i].start + highlights[i].duration + MIN_GAP

\* A run in which a conflicting pair was resolved by trimming: two
\* highlights are kept and the first one's duration was changed.
SpacingWitness ==
    /\ pc = "spaced"
    /\ Len(highlights) >= 2
    /\ \E i \in 1..Len(prior.highlights) :
           /\ prior.highlights[i].id = highlights[1].id
           /\ prior.highlights[i].duration > highlights[1].duration
           /\ prior.highlights[i].start # highlights[1].start

(***************************************************************************)
(* SpecPrune: prune_highlights applied to highlight lists around the       *)
(* maximum.  A list is laid out one highlight every 3 s; the inputs choose *)
(* its length, which of the edge highlights carry a weak one-word keyword, *)
(* whether one is a section title, and whether two highlights carry the    *)
(* same id (normalize_plan and the raw plan do not make ids unique).       *)
(***************************************************************************)
MaxPruneExcess == 2

PruneLengths == (MAX_TOTAL_HIGHLIGHTS - 1)..(MAX_TOTAL_HIGHLIGHTS + MaxPruneExcess)

PruneInputs ==
    {[n |-> n, weak |-> w, section |-> sec, dup |-> d] :
        n \in PruneLengths,
        w \in SUBSET {1, 2, MAX_TOTAL_HIGHLIGHTS - 1, MAX_TOTAL_HIGHLIGHTS},
        sec \in {0, 1, MAX_TOTAL_HIGHLIGHTS - 1},
        d \in {<<0, 0>>, <<1, 2>>, <<1, MAX_TOTAL_HIGHLIGHTS - 1>>, <<3, 4>>}}

PruneHighlight(input, i) ==
    [id |-> IF input.dup[2] = i THEN IdNames[input.dup[1]] ELSE IdNames[i],
     type |-> IF input.section = i THEN "sectionTitle" ELSE "noteBox",
     start |-> i * 3 * TicksPerSecond,
     duration |-> 26000,
     numeric |-> TRUE,
     keyword |-> IF i \in input.weak THEN <<"day">> ELSE <<"epic", "launch">>,
     text |-> <<>>,
     importance |-> "primary"]

InitPrune ==
    /\ pc = "spaced"
    /\ segments = <<>>
    /\ \E input \in PruneInputs :
           highlights = [i \in 1..input.n |-> PruneHighlight(input, i)]
    /\ meta = NoMeta
    /\ prior = NoPlan
    /\ scene_map = <<>>
    /\ highlight_windows = <<>>
    /\ IdleNormalizer
    /\ IdleAssets

\* main, line 2905: prune_highlights(enriched_plan)
PruneHighlights ==
    /\ pc = "spaced"
    /\ pc' = "pruned"
    /\ prior' = ThePlan
    /\ highlights' = prune_highlights(highlights, MAX_TOTAL_HIGHLIGHTS)
    /\ outcome' = "returned"
    /\ UNCHANGED <<segments, meta, raw, ret, scene_map, highlight_windows, motion_rules, sfx_catalog>>

NextPrune == PruneHighlights

SpecPrune == InitPrune /\ [][NextPrune]_vars

\* C3: after prune_highlights(max_total=20) on a plan holding n highlights
\* the plan holds exactly min(n, 20) highlights.
PruneCountExact ==
    pc = "pruned" =>
        Len(highlights) = Min(Len(prior.highlights), MAX_TOTAL_HIGHLIGHTS)

\* Line 2906
TrimHighlightsToSegments ==
    /\ pc = "pruned"
    /\ pc' = "trimmed"
    /\ prior' = ThePlan
    /\ highlights' = trim_highlights_to_segments(segments, highlights)
    /\ UNCHANGED <<segments, meta, raw, ret, outcome, scene_map, highlight_windows, motion_rules, sfx_catalog>>

\* Line 2908
EnsureMotionFromHighlights ==
    /\ pc = "broll"
    /\ pc' = "motion"
    /\ prior' = ThePlan
    /\ segments' = ensure_motion_from_highlights(segments, highlights, motion_rules)
    /\ UNCHANGED <<highlights, meta, raw, ret, outcome, scene_map, highlight_windows,
                   motion_rules, sfx_catalog>>

\* Line 2907
EnsureBrollFromHighlights ==
    /\ pc = "trimmed"
    /\ pc' = "broll"
    /\ prior' = ThePlan
    /\ segments' = ensure_broll_from_highlights(segments, highlights, BrollCatalog)
    /\ UNCHANGED <<highlights, meta, raw, ret, outcome, scene_map, highlight_windows, motion_rules, sfx_catalog>>

(***************************************************************************)
(* SpecEnrich: the passes of main from enrich_plan to                      *)
(* ensure_broll_from_highlights on plans of three segments s1, s2, s3.     *)
(* The plans differ in the timing of the segments (contiguous, within the  *)
(* tolerance, a gap, an overlap), in the B-roll a segment carries when the *)
(* plan is loaded, in the meta of the plan, in the highlights and in the   *)
(* scene map (none, two that cover the plan, one that starts late).        *)
(***************************************************************************)
SceneEntry(start, end, topics, tokens, score, text) ==
    [start |-> start, end |-> end, topics |-> topics, tokens |-> tokens,
     highlightScore |-> score, cta |-> FALSE, text |-> text, sfxHints |-> {},
     motionCandidates |-> <<>>]

\* Four scenes: analytics, analytics, a weak strategy scene, and an
\* analytics scene with CTA language.
SceneMapA ==
    <<SceneEntry(0, 80000, {"analytics"}, <<"data", "metrics">>, 80,
                 <<"data", "metrics", "plan">>),
      SceneEntry(80000, 160000, {"analytics"}, <<"launch">>, 90,
                 <<"epic", "launch", "plan">>),
      SceneEntry(160000, 260000, {"strategy"}, <<"strategy">>, 50, <<"um", "is">>),
      [SceneEntry(260000, 400000, {"analytics"}, <<"data">>, 85,
                  <<"strategy", "framework">>) EXCEPT !.cta = TRUE]>>

\* Two scenes: a strategy scene with an SFX hint, and a scene without
\* topics.
SceneMapB ==
    <<[SceneEntry(0, 120000, {"strategy"}, <<"strategy">>, 75,
                  <<"the", "strategy", "framework">>) EXCEPT !.sfxHints = {"whoosh"}],
      SceneEntry(120000, 400000, {}, <<>>, 40, <<"um">>)>>

\* SceneMapA without its first scene: no transcript for the first 8 s.
SceneMapC == Tail(SceneMapA)

SceneMaps == {<<>>, SceneMapA, SceneMapB, SceneMapC}

\* <<sourceStart, duration>> of s1, s2, s3.
SegmentLayouts ==
    {<<<<0, 80000>>, <<80000, 80000>>, <<160000, 80000>>>>,
     <<<<0, 80000>>, <<79700, 80000>>, <<260000, 80000>>>>,
     <<<<0, 80000>>, <<70000, 40000>>, <<110000, 80000>>>>,
     <<<<0, 160000>>, <<160000, 30000>>, <<190600, 80000>>>>}

SegmentIds == <<"s1", "s2", "s3">>
SegmentLabels == <<<<>>, <<"strategy">>, <<"data", "metrics">>>>

\* A B-roll a plan file holds for a segment before the run.
OldBroll == [NoBroll EXCEPT !.present = TRUE, !.id = "old_item", !.mode = "full",
                            !.confidence = 30]

\* The segment that carries OldBroll when the plan is loaded, 0 for none.
OldBrollAt == {0, 1, 3}

PlanSegments(layout, old) ==
    [i \in 1..Len(layout) |->
        [id |-> SegmentIds[i], sourceStart |-> layout[i][1], duration |-> layout[i][2],
         label |-> SegmentLabels[i], kind |-> "",
         broll |-> IF i = old THEN OldBroll ELSE NoBroll, motionCue |-> "",
         notes |-> IF i = old THEN <<Note("keep", "")>> ELSE <<>>,
         hasSfxHints |-> FALSE, sfxHints |-> {}]]

DictMeta == [NoMeta EXCEPT !.present = TRUE, !.isDict = TRUE]

StaleWarning == [kind |-> "Gap", amount |-> 10000, prev |-> "s0", current |-> "s1"]

\* No meta, {}, {"warnings": []}, a stale warning, a meta that is not an
\* object, and a count of generated sections.
PlanMetas ==
    {NoMeta, DictMeta, [DictMeta EXCEPT !.hasWarnings = TRUE],
     [DictMeta EXCEPT !.hasWarnings = TRUE, !.warnings = <<StaleWarning>>],
     [NoMeta EXCEPT !.present = TRUE], [DictMeta EXCEPT !.generatedSections = 1]}

PlanHighlight(id, type, start, duration, keyword) ==
    [id |-> id, type |-> type, start |-> start, duration |-> duration,
     numeric |-> TRUE, keyword |-> keyword, text |-> keyword,
     importance |-> IF type = "noteBox" THEN "primary" ELSE ""]

PlanHighlightSets ==
    {<<>>,
     <<PlanHighlight("h01", "noteBox", 10000, 20000, <<"data", "metrics">>),
       PlanHighlight("h02", "noteBox", 170000, 30000, <<"data">>),
       PlanHighlight("h03", "noteBox", 270000, 20000, <<"metrics", "insights">>)>>,
     <<PlanHighlight("h01", "sectionTitle", 90000, 30000, <<"launch", "overview">>),
       PlanHighlight("h02", "noteBox", 100000, 15000, <<"strategy", "plan">>),
       PlanHighlight("h03", "icon", 200000, 14000, <<"launch">>)>>,
     <<PlanHighlight("h01", "noteBox", 20000, 15000, <<"video">>),
       PlanHighlight("CTA-1", "noteBox", 300000, 20000, <<"dang", "ky", "kenh">>)>>}

InitEnrich ==
    /\ pc = "loaded"
    /\ \E layout \in SegmentLayouts, old \in OldBrollAt :
           segments = PlanSegments(layout, old)
    /\ highlights \in PlanHighlightSets
    /\ meta \in PlanMetas
    /\ prior = NoPlan
    /\ scene_map \in SceneMaps
    /\ highlight_windows = <<>>
    /\ IdleNormalizer
    /\ IdleAssets

NextEnrich ==
    \/ EnrichPlan
    \/ SnapHighlightsToTranscript
    \/ RefreshHighlightPhrases
    \/ DecorateSectionHighlights
    \/ EnforceHighlightSpacing
    \/ PruneHighlights
    \/ TrimHighlightsToSegments
    \/ EnsureBrollFromHighlights

SpecEnrich == InitEnrich /\ [][NextEnrich]_vars

\* The segments that carry the B-roll item id.
SegmentsWithBroll(id) ==
    {i \in 1..Len(segments) : segments[i].broll.present /\ segments[i].broll.id = id}

\* C4: in the plan the passes produce (the scored match of enrich_plan, then
\* the keyword match of ensure_broll_from_highlights) no B-roll item id is
\* assigned to more than MAX_BROLL_REUSE = 2 segments.
BrollReuseCap ==
    pc = "broll" =>
        \A i \in 1..Len(segments) :
            segments[i].broll.present =>
                Cardinality(SegmentsWithBroll(segments[i].broll.id)) <= MAX_BROLL_REUSE

\* C5: neither B-roll path overwrites an assignment: a segment that carried
\* a broll value before enrich_plan or ensure_broll_from_highlights ran
\* carries the same value afterwards.
BrollNeverOverwritten ==
    pc \in {"enriched", "broll"} =>
        \A i \in 1..Len(prior.segments) :
            prior.segments[i].broll.present =>
                segments[i].broll = prior.segments[i].broll

\* sourceStart of the segment after segs[i] minus the end of segs[i].
TimingGap(segs, i) == segs[i + 1].sourceStart - (segs[i].sourceStart + segs[i].duration)

HasWarning(m, kind, prev, current) ==
    \E k \in 1..Len(m.warnings) :
        /\ m.warnings[k].kind = kind
        /\ m.warnings[k].prev = prev
        /\ m.warnings[k].current = current

\* C10: whatever meta the plan had, the plan enrich_plan returns carries in
\* meta.warnings a gap or overlap warning for every pair of consecutive
\* segments that is more than the tolerance (0.05 s) apart, and none for a
\* pair within the tolerance.
TimingWarningsInMeta ==
    pc = "enriched" =>
        /\ outcome = "returned"
        /\ \A i \in 1..(Len(segments) - 1) :
               /\ HasWarning(meta, "Gap", segments[i].id, segments[i + 1].id)
                      <=> TimingGap(segments, i) > TIMING_TOLERANCE
               /\ HasWarning(meta, "Overlap", segments[i].id, segments[i + 1].id)
                      <=> TimingGap(segments, i) < 0 - TIMING_TOLERANCE

(***************************************************************************)
(* SpecPipeline: a raw plan goes through normalize_plan, is loaded by      *)
(* enrich_plan.py and goes through the passes up to                        *)
(* enforce_highlight_spacing.  The raw plans hold two or three segments    *)
(* and up to two highlights: durations below, within and above the clamp   *)
(* of the normalizer, a duration given by `end`, a missing duration, an    *)
(* icon.                                                                   *)
(***************************************************************************)
RawSegment(id, source_start, duration) ==
    [NoSegmentFields EXCEPT !.id = Str(id), !.sourceStart = Num(source_start),
                            !.duration = Num(duration)]

PipelineRawSegments ==
    {<<RawSegment("s1", 0, 80000),
       [RawSegment("s2", 80000, 80000) EXCEPT !.label = Text(<<"epic", "launch">>)]>>,
     <<RawSegment("s1", 0, 80000), RawSegment("s2", 79700, 80000),
       RawSegment("s3", 260000, 80000)>>}

PipelineRawHighlights ==
    {[NoHighlightFields EXCEPT !.type = Str("noteBox"), !.start = Num(10000),
                               !.duration = Num(20000),
                               !.text = Text(<<"epic", "launch">>)],
     [NoHighlightFields EXCEPT !.type = Str("noteBox"), !.start = Num(25000),
                               !.duration = Num(90000),
                               !.text = Text(<<"the", "epic", "launch">>)],
     [NoHighlightFields EXCEPT !.id = Str("h1"), !.type = Str("sectionTitle"),
                               !.start = Num(90000), !.end = Num(120000),
                               !.title = Text(<<"launch">>)],
     [NoHighlightFields EXCEPT !.type = Str("typewriter"), !.start = Num(25000),
                               !.duration = Num(5000),
                               !.text = Text(<<"key", "theme">>)],
     [NoHighlightFields EXCEPT !.icon = Text(<<"launch">>), !.start = Num(200000),
                               !.duration = Num(10000), !.text = Text(<<"is", "epic">>)],
     [NoHighlightFields EXCEPT !.type = Str("caption"), !.start = Num(270000),
                               !.text = Text(<<"launch", "summary">>)]}

PipelineRawPlans ==
    {[EmptyRawPlan EXCEPT !.segments = gs, !.highlights = hs, !.meta = m] :
        gs \in PipelineRawSegments, hs \in UpToTwo(PipelineRawHighlights),
        m \in RawMetas}

InitPipeline ==
    /\ pc = "start"
    /\ segments = <<>>
    /\ highlights = <<>>
    /\ meta = NoMeta
    /\ prior = NoPlan
    /\ raw \in PipelineRawPlans
    /\ ret = EmptyRawPlan
    /\ outcome = "none"
    /\ scene_map \in SceneMaps
    /\ highlight_windows = <<>>
    /\ IdleAssets

NextPipeline ==
    \/ NormalizePlan
    \/ LoadPlan
    \/ EnrichPlan
    \/ SnapHighlightsToTranscript
    \/ RefreshHighlightPhrases
    \/ DecorateSectionHighlights
    \/ EnforceHighlightSpacing

SpecPipeline == InitPipeline /\ [][NextPipeline]_vars

MIN_TEXT_DURATION == 15000
MAX_TEXT_DURATION == 50000

\* The highlights that the pass that ran last added to the plan.
Injected == {i \in 1..Len(highlights) :
                \A k \in 1..Len(prior.highlights) : prior.highlights[k].id # highlights[i].id}

IsCardId(id) == \E k \in 1..Len(segments) : id = "section_" \o segments[k].id

TextualWithinBounds(h) ==
    h.type # "icon" =>
        h.numeric /\ h.duration >= MIN_TEXT_DURATION /\ h.duration <= MAX_TEXT_DURATION

SceneMapM ==
    [i \in 1..Len(SceneMapA) |->
        [SceneMapA[i] EXCEPT !.motionCandidates =
            IF i = 1 THEN <<"zoom-in", "pan">>
            ELSE IF i = 3 THEN <<"-", "slide_up">> ELSE <<>>]]

MotionSceneMaps == {<<>>, SceneMapA, SceneMapB, SceneMapC, SceneMapM}

\* <<sourceStart, duration>> of s1, s2, s3; in the second layout s2 has no
\* duration, in the third s3 starts after the last scene ends, in the
\* fourth s3 reaches into the CTA scene of SceneMapA.
MotionLayouts ==
    {<<<<0, 80000>>, <<80000, 80000>>, <<160000, 80000>>>>,
     <<<<0, 80000>>, <<80000, 0>>, <<80000, 80000>>>>,
     <<<<0, 160000>>, <<160000, 30000>>, <<410000, 80000>>>>,
     <<<<0, 80000>>, <<80000, 80000>>, <<240000, 80000>>>>}

\* The segment that carries a motion cue when the plan is loaded, 0 for
\* none.
OldCueAt == {0, 2}

MotionSegments(layout, old) ==
    [i \in 1..Len(layout) |->
        [id |-> SegmentIds[i], sourceStart |-> layout[i][1], duration |-> layout[i][2],
         label |-> SegmentLabels[i], kind |-> "", broll |-> NoBroll,
         motionCue |-> IF i = old THEN "pan" ELSE "",
         notes |-> IF i = old THEN <<Note("Motion cue assigned", "pan"), Note("keep", "")>>
                   ELSE <<>>,
         hasSfxHints |-> FALSE, sfxHints |-> {}]]

MotionRules(hasFrequency, motion_frequency) ==
    [empty |-> FALSE, hasFrequency |-> hasFrequency, motion_frequency |-> motion_frequency,
     highlight_rate |-> 60, zoom_out_keywords |-> {"overview"}]

MotionRuleSets ==
    {NoMotionRules, MotionRules(FALSE, 0), MotionRules(TRUE, 0), MotionRules(TRUE, 30),
     MotionRules(TRUE, 50), MotionRules(TRUE, 100)}

InitMotion ==
    /\ pc = "loaded"
    /\ \E layout \in MotionLayouts, old \in OldCueAt :
           segments = MotionSegments(layout, old)
    /\ highlights \in PlanHighlightSets
    /\ meta = NoMeta
    /\ prior = NoPlan
    /\ scene_map \in MotionSceneMaps
    /\ highlight_windows = <<>>
    /\ IdleNormalizer
    /\ motion_rules \in MotionRuleSets
    /\ sfx_catalog = NoSfxCatalog

NextMotion ==
    \/ EnrichPlan
    \/ SnapHighlightsToTranscript
    \/ RefreshHighlightPhrases
    \/ DecorateSectionHighlights
    \/ EnforceHighlightSpacing
    \/ PruneHighlights
    \/ TrimHighlightsToSegments
    \/ EnsureBrollFromHighlights
    \/ EnsureMotionFromHighlights

SpecMotion == InitMotion /\ [][NextMotion]_vars

\* A scene entry overlaps the segment by a positive duration.
OverlapsScene(segment) ==
    \E k \in 1..Len(scene_map) :
        Min(segment.sourceStart + segment.duration, scene_map[k].end)
            > Max(segment.sourceStart, scene_map[k].start)

\* The segments that overlap a scene entry flagged as CTA.
CtaSegments(segs) ==
    {i \in 1..Len(segs) :
        \E k \in 1..Len(scene_map) :
            /\ scene_map[k].cta
            /\ Min(segs[i].sourceStart + segs[i].duration, scene_map[k].end)
                   > Max(segs[i].sourceStart, scene_map[k].start)}

\* C11: aggregate_scene_for_segment returns no summary exactly for a segment
\* that no scene entry overlaps by a positive duration.  In the plan that
\* enrich_plan returns such a segment has the diagnostic note appended to
\* its notes and keeps its broll, motionCue and sfxHints as they were; no
\* section card is injected for it and an injected CTA is built from the
\* last segment that overlaps a CTA scene; every segment that does overlap
\* a scene, also one after a segment without, has had notes appended.
NoSceneSegmentSkipped ==
    (pc = "enriched" /\ outcome = "returned") =>
        \A i \in 1..Len(segments) :
            LET before == prior.segments[i]
            IN  /\ aggregate_scene_for_segment(before, scene_map).exists
                       <=> OverlapsScene(before)
                /\ ~OverlapsScene(before) =>
                       /\ segments[i].notes = Append(before.notes, Note(NO_SCENE_NOTE, ""))
                       /\ segments[i].broll = before.broll
                       /\ segments[i].motionCue = before.motionCue
                       /\ segments[i].hasSfxHints = before.hasSfxHints
                       /\ segments[i].sfxHints = before.sfxHints
                       /\ \A h \in Injected :
                              /\ highlights[h].id # "section_" \o before.id
                              /\ highlights[h].id = "cta_subscribe" =>
                                     /\ CtaSegments(prior.segments) # {}
                                     /\ highlights[h] =
                                            CtaHighlight(prior.segments[
                                                SetMax(CtaSegments(prior.segments))])
                /\ OverlapsScene(before) =>
                       /\ Len(segments[i].notes) > Len(before.notes)
                       /\ SubSeq(segments[i].notes, 1, Len(before.notes)) = before.notes

\* enrich_plan has passed over a segment of positive duration without a
\* scene and over one of no duration, has assigned a B-roll and a motion
\* cue to a segment after a skipped one, and has injected a CTA.
NoSceneSegmentWitness ==
    /\ pc = "enriched"
    /\ outcome = "returned"
    /\ \E i \in 1..Len(segments) :
           /\ ~OverlapsScene(prior.segments[i])
           /\ \E j \in (i + 1)..Len(segments) :
                  /\ OverlapsScene(prior.segments[j])
                  /\ segments[j].broll.present
                  /\ prior.segments[j].motionCue = ""
                  /\ segments[j].motionCue # ""
    /\ \E h \in Injected : highlights[h].id = "cta_subscribe"

\* The motion_frequency of the rules, the default of line 1910 when the
\* rules give none.
RuleFrequency ==
    IF motion_rules.hasFrequency THEN motion_rules.motion_frequency
    ELSE DEFAULT_MOTION_FREQUENCY

\* C12: after the scene-based assignment of enrich_plan and after
\* ensure_motion_from_highlights the number of segments that carry a motion
\* cue is at most ceil(totalSegments x motion_frequency), whatever
\* motion_frequency the rules give (0 and no value included).
MotionCueCap ==
    (pc \in {"enriched", "motion"} /\ outcome = "returned") =>
        AssignedCues(segments) <= MotionCap(Len(segments), RuleFrequency)

\* The elements of a occur in b in the same order.
RECURSIVE IsSubsequence(_, _)
IsSubsequence(a, b) ==
    IF a = <<>> THEN TRUE
    ELSE IF b = <<>> THEN FALSE
    ELSE IF Head(a) = Head(b) THEN IsSubsequence(Tail(a), Tail(b))
    ELSE IsSubsequence(a, Tail(b))

\* C18: after enrich_plan, after ensure_broll_from_highlights and after
\* ensure_motion_from_highlights every note that a segment carried before
\* the pass is still in its notes, in the same relative order.
NotesAppendOnly ==
    (pc \in {"enriched", "broll", "motion"} /\ outcome = "returned") =>
        \A i \in 1..Len(segments) :
            IsSubsequence(prior.segments[i].notes, segments[i].notes)

(***************************************************************************)
(* ensure_highlight_sfx (enrich_plan.py 1754-1761, 1995-2035).  A text is  *)
(* a sequence of words; Spell gives the characters of a word, so that      *)
(* `keyword in combined` is the substring test of the source on the words  *)
(* joined by blanks.  A gain is in hundredths of a dB.  The metadata of a  *)
(* highlight is "none" (absent), "empty" (an object without audio),        *)
(* "auto" or "manual" (an object with that audio), or "text" (not an       *)
(* object).  An SFX catalog is [supplied, items], an item [file, id] with  *)
(* "" for an absent field.                                                 *)
(***************************************************************************)
Spell(word) ==
    CASE word = "sweet" -> <<"s", "w", "e", "e", "t">>
      [] word = "honest" -> <<"h", "o", "n", "e", "s", "t">>
      [] word = "honestly" -> <<"h", "o", "n", "e", "s", "t", "l", "y">>
      [] word = "high" -> <<"h", "i", "g", "h">>
      [] word = "school" -> <<"s", "c", "h", "o", "o", "l">>
      [] word = "sweetheart" -> <<"s", "w", "e", "e", "t", "h", "e", "a", "r", "t">>
      [] word = "sweethearts" -> <<"s", "w", "e", "e", "t", "h", "e", "a", "r", "t", "s">>
      [] word = "clientele" -> <<"c", "l", "i", "e", "n", "t", "e", "l", "e">>
      [] word = "client" -> <<"c", "l", "i", "e", "n", "t">>
      [] word = "clients" -> <<"c", "l", "i", "e", "n", "t", "s">>
      [] word = "loyalty" -> <<"l", "o", "y", "a", "l", "t", "y">>
      [] word = "Loyalty" -> <<"L", "o", "y", "a", "l", "t", "y">>
      [] word = "day" -> <<"d", "a", "y">>
      [] word = "one" -> <<"o", "n", "e">>
      [] word = "relationship" ->
             <<"r", "e", "l", "a", "t", "i", "o", "n", "s", "h", "i", "p">>
      [] word = "relationships" ->
             <<"r", "e", "l", "a", "t", "i", "o", "n", "s", "h", "i", "p", "s">>
      [] word = "consistency" -> <<"c", "o", "n", "s", "i", "s", "t", "e", "n", "c", "y">>
      [] word = "consistent" -> <<"c", "o", "n", "s", "i", "s", "t", "e", "n", "t">>
      [] word = "plan" -> <<"p", "l", "a", "n">>
      [] OTHER -> <<word>>

\* str.lower on a character.
LowerChar(c) == IF c = "L" THEN "l" ELSE c

\* " ".join(words).lower() as characters.
RECURSIVE SpellText(_)
SpellText(words) ==
    IF words = <<>> THEN <<>>
    ELSE LET head == [i \in 1..Len(Spell(Head(words))) |-> LowerChar(Spell(Head(words))[i])]
         IN  IF Len(words) = 1 THEN head
             ELSE head \o <<" ">> \o SpellText(Tail(words))

\* `needle in haystack` on characters.
IsSubstring(needle, haystack) ==
    \E at \in 0..(Len(haystack) - Len(needle)) :
        SubSeq(haystack, at + 1, at + Len(needle)) = needle

\* HIGHLIGHT_SFX_RULES (1754-1761); a keyword is a sequence of words.
HIGHLIGHT_SFX_RULES ==
    <<[keywords |-> {<<"sweet">>, <<"honest">>},
       sfx |-> "assets/sfx/emotion/applause.mp3", gain |-> -250],
      [keywords |-> {<<"high", "school">>, <<"sweetheart">>, <<"sweethearts">>},
       sfx |-> "assets/sfx/ui/pop.mp3", gain |-> -250],
      [keywords |-> {<<"clientele">>, <<"client">>, <<"clients">>},
       sfx |-> "assets/sfx/ui/pop.mp3", gain |-> -250],
      [keywords |-> {<<"loyalty">>, <<"day", "one">>},
       sfx |-> "assets/sfx/emphasis/ding.mp3", gain |-> -250],
      [keywords |-> {<<"relationship">>, <<"relationships">>},
       sfx |-> "assets/sfx/ui/bubble-pop.mp3", gain |-> -300],
      [keywords |-> {<<"consistency">>, <<"consistent">>},
       sfx |-> "assets/sfx/emphasis/ding.mp3", gain |-> -300]>>

\* str.lower on the paths of the model.
LowerPath(path) ==
    IF path = "Assets/SFX/UI/Pop.mp3" THEN "assets/sfx/ui/pop.mp3" ELSE path

\* Line 2008: item.get("file") or item.get("id")
ItemPath(item) == IF item.file # "" THEN item.file ELSE item.id

\* Lines 2003-2010: the lower-cased paths of the catalog items.
AvailableSfx(catalog) ==
    IF ~catalog.supplied THEN {}
    ELSE {LowerPath(ItemPath(item)) : item \in {c \in catalog.items : ItemPath(c) # ""}}

\* Line 2025
RuleMatches(rule, combined) ==
    \E keyword \in rule.keywords : IsSubstring(SpellText(keyword), combined)

\* Lines 2024-2035: the first rule, from position idx on, that matches and
\* whose file line 2028 lets pass; 0 for none.
RECURSIVE DecidingRule(_, _, _)
DecidingRule(combined, available, idx) ==
    IF idx > Len(HIGHLIGHT_SFX_RULES) THEN 0
    ELSE LET rule == HIGHLIGHT_SFX_RULES[idx]
         IN  IF RuleMatches(rule, combined)
                /\ ~(available # {} /\ LowerPath(rule.sfx) \notin available)
             THEN idx
             ELSE DecidingRule(combined, available, idx + 1)

\* Lines 2032-2034
AudioMetadata(metadata) == IF metadata \in {"none", "empty"} THEN "auto" ELSE metadata

\* Lines 2012-2035 for one highlight.
HighlightWithSfx(highlight, available) ==
    LET combined == SpellText(highlight.text \o highlight.keyword \o highlight.title)
        decided == DecidingRule(combined, available, 1)
    IN  IF highlight.sfx # "" \/ combined = <<>> \/ decided = 0 THEN highlight
        ELSE [highlight EXCEPT !.sfx = HIGHLIGHT_SFX_RULES[decided].sfx,
                               !.hasGain = TRUE,
                               !.gain = HIGHLIGHT_SFX_RULES[decided].gain,
                               !.metadata = AudioMetadata(highlight.metadata)]

ensure_highlight_sfx(hs, catalog) ==
    [i \in 1..Len(hs) |-> HighlightWithSfx(hs[i], AvailableSfx(catalog))]

\* metadata.get("audio") in {"auto", "keep", "accent"} of a metadata that is
\* an object.
PreserveAudio(highlight) == highlight.metadata \in {"auto", "keep", "accent"}

\* Lines 2390-2394: pop of sfx, gain and ducking.
WithoutAudio(highlight) ==
    [key \in DOMAIN highlight |->
        IF key = "sfx" THEN ""
        ELSE IF key \in {"hasGain", "hasDucking"} THEN FALSE
        ELSE IF key = "gain" THEN 0
        ELSE highlight[key]]

\* Lines 2385-2394 with every highlight that is no section title stripped.
StripUnmarked(highlight) ==
    IF highlight.type = "sectionTitle" THEN highlight ELSE WithoutAudio(highlight)

\* Lines 2385-2394 for one highlight.
StripHighlight(highlight) ==
    IF highlight.type = "sectionTitle" \/ PreserveAudio(highlight) THEN highlight
    ELSE WithoutAudio(highlight)

\* strip_non_section_sfx (2381-2394)
strip_non_section_sfx(hs) == [i \in 1..Len(hs) |-> StripHighlight(hs[i])]

\* Line 2909
EnsureHighlightSfx ==
    /\ pc = "motion"
    /\ pc' = "sfx"
    /\ prior' = ThePlan
    /\ highlights' = ensure_highlight_sfx(highlights, sfx_catalog)
    /\ outcome' = "returned"
    /\ UNCHANGED <<segments, meta, raw, ret, scene_map, highlight_windows, motion_rules,
                   sfx_catalog>>

\* Line 2910
StripNonSectionSfx ==
    /\ pc = "sfx"
    /\ pc' = "stripped"
    /\ prior' = ThePlan
    /\ highlights' = strip_non_section_sfx(highlights)
    /\ UNCHANGED <<segments, meta, raw, ret, outcome, scene_map, highlight_windows,
                   motion_rules, sfx_catalog>>

(***************************************************************************)
(* SpecSfx: ensure_highlight_sfx applied to plans of up to                 *)
(* MaxSfxHighlights highlights whose texts hit no rule, one rule, or       *)
(* several rules, with and without an sfx of their own, under no catalog,  *)
(* a catalog that holds every file, catalogs that lack some files, and a   *)
(* catalog without an items list.                                          *)
(***************************************************************************)
MaxSfxHighlights == 2

SfxTexts ==
    {<<>>, <<"plan">>, <<"sweet", "clients">>, <<"sweetheart">>, <<"honestly">>,
     <<"Loyalty", "day">>, <<"relationship">>, <<"consistent", "clients">>}

SfxKeywords == {<<>>, <<"one">>}

SfxChoices ==
    [text : SfxTexts, keyword : SfxKeywords, sfx : {"", "assets/sfx/custom.mp3"},
     metadata : {"none"}]
    \cup [text : {<<"sweet", "clients">>}, keyword : {<<>>}, sfx : {""},
          metadata : {"empty", "auto", "manual", "text"}]

SfxInputs == UNION {[1..n -> SfxChoices] : n \in 1..MaxSfxHighlights}

SfxHighlight(i, c) ==
    [id |-> IdNames[i], type |-> "noteBox", start |-> 100000 * i, duration |-> 20000,
     numeric |-> TRUE, keyword |-> c.keyword, text |-> c.text, importance |-> "",
     title |-> <<>>, sfx |-> c.sfx, hasGain |-> FALSE, gain |-> 0,
     metadata |-> c.metadata]

SfxItem(file, id) == [file |-> file, id |-> id]

SfxCatalogs ==
    {NoSfxCatalog,
     [supplied |-> TRUE, items |-> {}],
     [supplied |-> TRUE,
      items |-> {SfxItem("assets/sfx/emotion/applause.mp3", "applause"),
                 SfxItem("Assets/SFX/UI/Pop.mp3", "pop"),
                 SfxItem("", "assets/sfx/emphasis/ding.mp3"),
                 SfxItem("assets/sfx/ui/bubble-pop.mp3", "bubble")}],
     [supplied |-> TRUE,
      items |-> {SfxItem("Assets/SFX/UI/Pop.mp3", "pop"), SfxItem("", "")}],
     [supplied |-> TRUE,
      items |-> {SfxItem("assets/sfx/emphasis/ding.mp3", "ding")}]}

InitSfx ==
    /\ pc = "motion"
    /\ segments = <<>>
    /\ \E input \in SfxInputs :
           highlights = [i \in 1..Len(input) |-> SfxHighlight(i, input[i])]
    /\ meta = NoMeta
    /\ prior = NoPlan
    /\ scene_map = <<>>
    /\ highlight_windows = <<>>
    /\ IdleNormalizer
    /\ motion_rules = NoMotionRules
    /\ sfx_catalog \in SfxCatalogs

NextSfx == EnsureHighlightSfx

SpecSfx == InitSfx /\ [][NextSfx]_vars

\* The positions of the rules of the table with a keyword in the text of
\* the highlight.
MatchingRules(highlight) ==
    {k \in 1..Len(HIGHLIGHT_SFX_RULES) :
        RuleMatches(HIGHLIGHT_SFX_RULES[k],
                    SpellText(highlight.text \o highlight.keyword \o highlight.title))}

\* C13: for a highlight without an sfx the first rule of the table with a
\* matching keyword decides: when an SFX catalog was supplied and does not
\* hold that rule's file the highlight is left without an sfx (no later
\* rule's file takes its place), otherwise it gets that rule's file and
\* gain.
SfxFirstRuleDecides ==
    pc = "sfx" =>
        \A i \in 1..Len(highlights) :
            LET before == prior.highlights[i]
            IN  (before.sfx = "" /\ MatchingRules(before) # {}) =>
                    LET first == CHOOSE k \in MatchingRules(before) :
                                     \A other \in MatchingRules(before) : k <= other
                        rule == HIGHLIGHT_SFX_RULES[first]
                    IN  IF sfx_catalog.supplied
                           /\ LowerPath(rule.sfx) \notin AvailableSfx(sfx_catalog)
                        THEN highlights[i].sfx = ""
                        ELSE /\ highlights[i].sfx = rule.sfx
                             /\ highlights[i].hasGain
                             /\ highlights[i].gain = rule.gain

(***************************************************************************)
(* SpecTrim: enforce_highlight_spacing applied to lists of up to           *)
(* MaxTrimHighlights highlights whose starts leave room to trim the        *)
(* previous highlight (2 s and 2.006 s after it) or leave none (0.4 s      *)
(* after it), as note boxes and section titles.                            *)
(***************************************************************************)
MaxTrimHighlights == 3

TrimStarts == {100000, 104000, 120000, 120060}
TrimDurations == {10000, 30000}

TrimChoices ==
    [type : {"noteBox", "sectionTitle"}, start : TrimStarts, duration : TrimDurations,
     numeric : {TRUE}]
    \cup {[type |-> "sectionTitle", start |-> 0, duration |-> 0, numeric |-> FALSE]}

TrimInputs == UNION {[1..n -> TrimChoices] : n \in 0..MaxTrimHighlights}

InitTrim ==
    /\ pc = "decorated"
    /\ segments = <<>>
    /\ \E input \in TrimInputs :
           highlights = [i \in 1..Len(input) |-> MakeHighlight(i, input[i])]
    /\ meta = NoMeta
    /\ prior = NoPlan
    /\ scene_map = <<>>
    /\ highlight_windows = <<>>
    /\ IdleNormalizer
    /\ IdleAssets

NextTrim == EnforceHighlightSpacing

SpecTrim == InitTrim /\ [][NextTrim]_vars

\* The accepted list when the loop reaches the last highlight of the
\* sorted input, and that highlight.
AcceptedBeforeLast == SpacingLoop(<<>>, Front(SortByStart(prior.highlights)))
LastCurrent == Last(SortByStart(prior.highlights))

\* The last highlight of the input has numeric timing and starts before
\* previous.end + minGap, previous being the last accepted highlight.
LastConflicts ==
    /\ prior.highlights # <<>>
    /\ LastCurrent.numeric
    /\ AcceptedBeforeLast # <<>>
    /\ LastCurrent.start < Last(AcceptedBeforeLast).start
                               + Max(MIN_DURATION, Last(AcceptedBeforeLast).duration)
                               + MIN_GAP

\* new.start - minGap - previous.start
LastRoom == LastCurrent.start - MIN_GAP - Last(AcceptedBeforeLast).start

\* C14: when the new highlight starts before previous.end + minGap and the
\* room new.start - minGap - previous.start is at least minDuration, the
\* previous highlight's duration becomes exactly that room and both
\* highlights are kept, whatever their types; the new one keeps its
\* duration.
TrimKeepsBoth ==
    (pc = "spaced" /\ LastConflicts /\ LastRoom >= MIN_DURATION) =>
        /\ Len(highlights) = Len(AcceptedBeforeLast) + 1
        /\ Front(highlights) = SetLastDuration(AcceptedBeforeLast, LastRoom)
        /\ Last(highlights).id = LastCurrent.id
        /\ Last(highlights).duration = Max(MIN_DURATION, LastCurrent.duration)

\* The ids of the highlights of a list.
IdsOf(hs) == {hs[i].id : i \in 1..Len(hs)}

\* The section titles with numeric timing of a list.
NumericSections(hs) == {i \in 1..Len(hs) : hs[i].numeric /\ IsSection(hs[i])}

\* C15: a section title with numeric timing leaves the list only through a
\* conflict with another section title, so one that is the only section
\* title of the input is in the output.  When the room is below
\* minDuration, a new section title evicts a previous highlight that is not
\* one, and a new highlight that is not a section title is dropped against
\* a previous section title, which stays as it was.
SectionTitlesWin ==
    pc = "spaced" =>
        /\ \A i \in NumericSections(prior.highlights) :
               NumericSections(prior.highlights) = {i} =>
                   prior.highlights[i].id \in IdsOf(highlights)
        /\ (LastConflicts /\ LastRoom < MIN_DURATION) =>
               /\ (IsSection(LastCurrent) /\ ~IsSection(Last(AcceptedBeforeLast))) =>
                      Last(AcceptedBeforeLast).id \notin IdsOf(highlights)
               /\ (~IsSection(LastCurrent) /\ IsSection(Last(AcceptedBeforeLast))) =>
                      highlights = AcceptedBeforeLast

(***************************************************************************)
(* SpecSanitize: sanitize_highlight_text applied to the texts of up to     *)
(* MaxTextTokens tokens over fillers, stopwords, a connector, a verb,      *)
(* content words in lower, capitalised and upper case and a word of one    *)
(* character, and to the text "um so basically the epic launch day".       *)
(* raw holds the text and ret the phrase.                                  *)
(***************************************************************************)
MaxTextTokens == 4

SanitizeWords ==
    {"um", "so", "basically", "the", "of", "is", "epic", "Launch", "DAY", "x"}

EXAMPLE_TEXT == <<"um", "so", "basically", "the", "epic", "launch", "day">>

SanitizeInputs ==
    UNION {[1..n -> SanitizeWords] : n \in 0..MaxTextTokens} \cup {EXAMPLE_TEXT}

InitSanitize ==
    /\ pc = "text"
    /\ segments = <<>>
    /\ highlights = <<>>
    /\ meta = NoMeta
    /\ prior = NoPlan
    /\ raw \in {Text(tokens) : tokens \in SanitizeInputs}
    /\ ret = Null
    /\ outcome = "none"
    /\ scene_map = <<>>
    /\ highlight_windows = <<>>
    /\ IdleAssets

\* sanitize_highlight_text(value), make_plan.py 346-395
SanitizeHighlightText ==
    /\ pc = "text"
    /\ pc' = "sanitized"
    /\ ret' = Text(sanitize_highlight_text(raw.w))
    /\ outcome' = "returned"
    /\ UNCHANGED <<segments, highlights, meta, prior, raw, scene_map, highlight_windows,
                   motion_rules, sfx_catalog>>

NextSanitize == SanitizeHighlightText

SpecSanitize == InitSanitize /\ [][NextSanitize]_vars

\* The words of a text in lower case.
LowerWords(ws) == [i \in 1..Len(ws) |-> Lower(ws[i])]

\* C16: for a text with at least one token sanitize_highlight_text returns
\* a phrase that is not empty and whose words, compared without regard to
\* case, are a subsequence of the tokens of the text.
PhraseFromInput ==
    (pc = "sanitized" /\ raw.w # <<>>) =>
        /\ ret.w # <<>>
        /\ IsSubsequence(LowerWords(ret.w), LowerWords(raw.w))

\* The extractor has dropped a stopword and a verb from a text, kept two
\* words of it and changed the case of one of them.
PhraseFromInputWitness ==
    /\ pc = "sanitized"
    /\ Len(ret.w) >= 2
    /\ Len(ret.w) < Len(raw.w)
    /\ \E j \in 1..Len(raw.w) : ~NotStopword(raw.w[j])
    /\ \E j \in 1..Len(raw.w) : IsVerb(raw.w[j])
    /\ \A i \in 1..Len(ret.w) : NotStopword(ret.w[i]) /\ ~IsVerb(ret.w[i])
    /\ \E i \in 1..Len(ret.w) : \A j \in 1..Len(raw.w) : ret.w[i] # raw.w[j]

\* Fillers and discourse markers.
DISCOURSE_MARKERS == FILLER_TOKENS \cup {"so", "basically"}

\* A token that is no marker, stopword, connector or verb.
IsContentWord(w) ==
    /\ Lower(w) \notin DISCOURSE_MARKERS
    /\ NotStopword(w)
    /\ ~IsConnector(w)
    /\ ~IsVerb(w)

\* C17: when the text holds at least two content tokens the phrase holds
\* no filler or discourse marker; the phrase of "um so basically the epic
\* launch day" holds none of "um", "so", "basically".
PhraseDropsFillers ==
    (pc = "sanitized" /\ Len(SelectSeq(raw.w, IsContentWord)) >= 2) =>
        \A i \in 1..Len(ret.w) : Lower(ret.w[i]) \notin DISCOURSE_MARKERS

(***************************************************************************)
(* SpecLayout: normalize_plan on raw plans of one highlight whose layout,  *)
(* arrangement, alignment, supportingTexts, items, supportingLeft and      *)
(* supportingRight keys are drawn from a grid, as a note box and as an     *)
(* icon.                                                                   *)
(***************************************************************************)
LayoutNames == {Absent, Str("dual"), Str("left"), Str("bottom"), Str("center"), Num(5)}
LayoutArrangements == {Absent, Str("Split")}
LayoutAlignments == {Absent, Str("pair"), Str("right")}
LayoutSupporting ==
    {NoSupportingTexts,
     Supporting(Text(<<"the", "epic">>), Absent),
     Supporting(Absent, Text(<<"launch", "day">>)),
     Supporting(Text(<<"epic">>), Text(<<"um">>)),
     Supporting(Text(<<"the">>), Num(5))}
LayoutItems ==
    {NoItems, List(<<>>), List(<<Text(<<"epic">>)>>),
     List(<<Text(<<"um">>), Text(<<"launch", "day">>)>>)}
LayoutSides == {Absent, Text(<<"launch">>)}
LayoutTypes == {Absent, Str("icon")}

LayoutKeys ==
    [layout : LayoutNames, arrangement : LayoutArrangements,
     alignment : LayoutAlignments, supportingTexts : LayoutSupporting,
     items : LayoutItems, supportingLeft : LayoutSides,
     supportingRight : LayoutSides]

LayoutEntry(type, keys) ==
    LET entry == [NoHighlightFields EXCEPT !.type = type, !.start = Num(10000),
                                           !.duration = Num(20000),
                                           !.text = Text(<<"epic", "launch">>)]
    IN  [key \in DOMAIN entry \cup DOMAIN keys |->
            IF key \in DOMAIN keys THEN keys[key] ELSE entry[key]]

LayoutPlans ==
    {[EmptyRawPlan EXCEPT !.highlights = <<LayoutEntry(type, keys)>>] :
        type \in LayoutTypes, keys \in LayoutKeys}

InitLayout ==
    /\ pc = "start"
    /\ IdlePlan
    /\ raw \in LayoutPlans
    /\ ret = EmptyRawPlan
    /\ outcome = "none"

NextLayout == NormalizePlan

SpecLayout == InitLayout /\ [][NextLayout]_vars

\* The supporting texts of a normalised highlight that has the given side.
HasSupporting(highlight, side) ==
    /\ highlight.supportingTexts.isDict
    /\ highlight.supportingTexts[side].t = "text"

\* C19: a normalised highlight whose layout is `dual` has both of its
\* supporting texts, topLeft and topRight, also when the raw entry names the
\* layout itself (layout, arrangement or alignment of dual, pair or split).
DualHasBothTexts ==
    (pc = "normalized" /\ outcome = "returned") =>
        \A i \in 1..Len(ret.highlights) :
            ret.highlights[i].layout = Str("dual") =>
                /\ HasSupporting(ret.highlights[i], "topLeft")
                /\ HasSupporting(ret.highlights[i], "topRight")

(***************************************************************************)
(* SpecCap: normalize_plan on raw plans of up to MAX_HIGHLIGHTS + 3        *)
(* highlights, some of them entries that normalise to nothing, with        *)
(* starts that rise, fall, or rise with the last entries starting first.   *)
(***************************************************************************)
MaxExtraHighlights == 3

CapLengths == {2} \cup ((MAX_HIGHLIGHTS - 1)..(MAX_HIGHLIGHTS + MaxExtraHighlights))
CapOrders == {"rising", "falling", "late"}
\* The places where a plan may hold an entry that normalises to nothing.
CapGaps == SUBSET {1, 5, MAX_HIGHLIGHTS, MAX_HIGHLIGHTS + 1}
CapEmptyEntries == {[NoHighlightFields EXCEPT !.isDict = FALSE],
                    [NoHighlightFields EXCEPT !.start = Num(10000)]}

CapStart(order, i) ==
    IF order = "rising" THEN i * 10000
    ELSE IF order = "falling" THEN (2 * MAX_HIGHLIGHTS - i) * 10000
    ELSE IF i > MAX_HIGHLIGHTS THEN (i - MAX_HIGHLIGHTS) * 10000 + 5000
    ELSE (i + (i % 2) * 2) * 10000

CapEntry(order, i) ==
    [NoHighlightFields EXCEPT !.start = Num(CapStart(order, i)),
                              !.duration = Num(5000),
                              !.text = Text(<<"epic", "launch">>)]

CapPlans ==
    {[EmptyRawPlan EXCEPT !.highlights =
        [i \in 1..n |-> IF i \in gaps THEN empty ELSE CapEntry(order, i)]] :
        n \in CapLengths, order \in CapOrders, gaps \in CapGaps,
        empty \in CapEmptyEntries}

InitCap ==
    /\ pc = "start"
    /\ IdlePlan
    /\ raw \in CapPlans
    /\ ret = EmptyRawPlan
    /\ outcome = "none"

NextCap == NormalizePlan

SpecCap == InitCap /\ [][NextCap]_vars

\* The places of the raw highlights that normalise to a highlight.
KeptPlaces == {i \in 1..Len(raw.highlights) :
                normalize_highlight_item(raw.highlights[i], i).kept}

\* The kept places with fewer than MAX_HIGHLIGHTS kept places before them.
AcceptedPlaces ==
    {i \in KeptPlaces : Cardinality({j \in KeptPlaces : j < i}) < MAX_HIGHLIGHTS}

\* C20: normalize_plan accepts at most 18 highlights: the highlights returned
\* are those of the first 18 raw entries, in input order, that normalise to a
\* highlight (entries that normalise to nothing are not counted, entries
\* after the 18th accepted one are ignored whatever their start), and they
\* are returned in ascending order of start.
AtMostEighteenInOrder ==
    (pc = "normalized" /\ outcome = "returned") =>
        /\ Len(ret.highlights) <= MAX_HIGHLIGHTS
        /\ Len(ret.highlights) = Cardinality(AcceptedPlaces)
        /\ {ret.highlights[k] : k \in 1..Len(ret.highlights)} =
               {normalize_highlight_item(raw.highlights[i], i).item : i \in AcceptedPlaces}
        /\ \A k \in 1..(Len(ret.highlights) - 1) :
               ret.highlights[k].start.n <= ret.highlights[k + 1].start.n

\* More than 18 raw entries normalise to a highlight, one of the first 18 raw
\* entries normalises to nothing, an ignored entry starts before an accepted
\* one, and the accepted entries were not in order of start.
AtMostEighteenWitness ==
    /\ pc = "normalized" /\ outcome = "returned"
    /\ Len(ret.highlights) = MAX_HIGHLIGHTS
    /\ Cardinality(KeptPlaces) > MAX_HIGHLIGHTS
    /\ \E i \in 1..MAX_HIGHLIGHTS : i \notin KeptPlaces
    /\ \E i \in KeptPlaces \ AcceptedPlaces : \E j \in AcceptedPlaces :
           raw.highlights[i].start.n < raw.highlights[j].start.n
    /\ \E i, j \in AcceptedPlaces :
           i < j /\ raw.highlights[i].start.n > raw.highlights[j].start.n

(***************************************************************************)
(* SpecSections: enrich_plan on plans of six segments of 20 s, s1 starting *)
(* at 0 s or at 5 s.  The scene map has one scene per segment, aligned     *)
(* with it or starting 2 s before it, or one long first scene that reaches *)
(* into s3.  Scenes may carry a text from which no phrase is derived, or a *)
(* highlight score below the bar.  The plan holds no highlight, a note     *)
(* box, or a section title at 62 s.                                        *)
(***************************************************************************)
SectionSegmentIds == <<"s1", "s2", "s3", "s4", "s5", "s6">>
SectionSegmentLength == 20 * TicksPerSecond
SectionOrigins == {0, 50000}
SectionShapes == {"aligned", "early", "long"}
\* The scenes without a phrase, and the scenes of low score.
SectionMutes == SUBSET {2, 4}
SectionLows == {{}, {3}}

SectionTexts ==
    <<<<"data", "metrics">>, <<"epic", "launch">>, <<"strategy", "framework">>,
      <<"key", "theme">>, <<"video", "memory">>, <<"launch", "plan">>>>

SectionSegmentStart(origin, i) == origin + (i - 1) * SectionSegmentLength

SectionSegments(origin) ==
    [i \in 1..Len(SectionSegmentIds) |->
        [id |-> SectionSegmentIds[i], sourceStart |-> SectionSegmentStart(origin, i),
         duration |-> SectionSegmentLength, label |-> <<>>, kind |-> "",
         broll |-> NoBroll, motionCue |-> "", notes |-> <<>>,
         hasSfxHints |-> FALSE, sfxHints |-> {}]]

SectionSceneStart(origin, shape, i) ==
    IF shape = "aligned" THEN SectionSegmentStart(origin, i)
    ELSE IF shape = "early" THEN Max(0, SectionSegmentStart(origin, i) - 20000)
    ELSE IF i = 1 THEN 0 ELSE SectionSegmentStart(origin, i + 1) + 50000

SectionSceneEnd(origin, shape, i) ==
    IF shape = "aligned" THEN SectionSegmentStart(origin, i + 1)
    ELSE IF shape = "early" THEN SectionSegmentStart(origin, i + 1) - 20000
    ELSE SectionSegmentStart(origin, i + 2) + 50000

SectionSceneMap(origin, shape, mutes, lows) ==
    [i \in 1..(IF shape = "long" THEN 5 ELSE 6) |->
        SceneEntry(SectionSceneStart(origin, shape, i), SectionSceneEnd(origin, shape, i),
                   {}, <<>>, IF i \in lows THEN 50 ELSE 80,
                   IF i \in mutes THEN <<"um", "is">> ELSE SectionTexts[i])]

SectionPlanHighlights ==
    {<<>>,
     <<PlanHighlight("h01", "noteBox", 100000, 20000, <<"data", "metrics">>)>>,
     <<PlanHighlight("h01", "sectionTitle", 620000, 30000, <<"launch", "overview">>)>>}

InitSections ==
    /\ pc = "loaded"
    /\ \E origin \in SectionOrigins :
           /\ segments = SectionSegments(origin)
           /\ \E shape \in SectionShapes, mutes \in SectionMutes, lows \in SectionLows :
                  scene_map = SectionSceneMap(origin, shape, mutes, lows)
    /\ highlights \in SectionPlanHighlights
    /\ meta = NoMeta
    /\ prior = NoPlan
    /\ highlight_windows = <<>>
    /\ IdleNormalizer
    /\ IdleAssets

NextSections == EnrichPlan

SpecSections == InitSections /\ [][NextSections]_vars

\* The highlights inject_section_cards read: those of the plan with the CTA
\* that enrich_plan ensured first.
HighlightsBeforeCards ==
    ensure_cta_highlight(prior.highlights, CtaCandidates(prior.segments, scene_map))

\* The segments inject_section_cards visits, in order.
SummarisedSegments == HasScene(prior.segments, scene_map)

\* The state of the loop of inject_section_cards when it reaches the i-th
\* segment.
SectionStateAt(i) ==
    SectionLoop(SectionLoopStart(HighlightsBeforeCards),
                SubSeq(SummarisedSegments, 1, i - 1), scene_map)

\* The i-th segment passes every test of the loop on the summary, and no
\* phrase is derived from its window.
PhraseFailsAt(i) ==
    LET summary == aggregate_scene_for_segment(SummarisedSegments[i], scene_map)
    IN  /\ Len(SectionStateAt(i).inserted) < MAX_SECTION_CARDS
        /\ IsSectionCandidate(SectionStateAt(i), summary)
        /\ derive_phrase_from_window(
               collect_scene_window(scene_map, summary.start, summary.end,
                                    SECTION_WINDOW_OVERLAP),
               MAX_KEYWORD_TOKENS + 2) = <<>>

\* The section cards that enrich_plan added to the plan.
InjectedCards == {i \in Injected : IsCardId(highlights[i].id)}

\* C21: inject_section_cards stops at the first candidate, eligible
\* otherwise, from which no phrase is derived: the plan holds no card for that
\* segment or for any segment after it, and every card holds a text.
SectionsStopAtFailure ==
    (pc = "enriched" /\ outcome = "returned") =>
        /\ \A i \in InjectedCards : highlights[i].text # <<>>
        /\ \A i \in 1..Len(SummarisedSegments) :
               PhraseFailsAt(i) =>
                   \A j \in i..Len(SummarisedSegments) : \A k \in InjectedCards :
                       highlights[k].id # "section_" \o SummarisedSegments[j].id

Distance(a, b) == IF a < b THEN b - a ELSE a - b

\* C22: every section card that inject_section_cards injects starts at 5 s or
\* later, at least the minimum gap from the start of every section title the
\* plan held and of every other card of the call; a call injects four cards at
\* most.
SectionCardsSpaced ==
    (pc = "enriched" /\ outcome = "returned") =>
        /\ Cardinality(InjectedCards) <= MAX_SECTION_CARDS
        /\ \A i \in InjectedCards :
               /\ highlights[i].start >= MIN_SECTION_START
               /\ \A k \in 1..Len(prior.highlights) :
                      IsSectionTitle(prior.highlights[k]) =>
                          Distance(highlights[i].start, prior.highlights[k].start)
                              >= MIN_SECTION_GAP
               /\ \A j \in InjectedCards \ {i} :
                      Distance(highlights[i].start, highlights[j].start) >= MIN_SECTION_GAP

(***************************************************************************)
(* SpecCta: enrich_plan, and enrich_plan once more on the plan it          *)
(* returned.  The plans have three segments that reach the CTA scene of    *)
(* the scene map or not; the scene map flags no scene, the last scene, or  *)
(* the first and the last; the highlights hold no CTA, a highlight whose   *)
(* id contains "CTA", or a highlight of type cta.                          *)
(***************************************************************************)
\* SceneMapA with CTA language in its first scene as well.
SceneMapD == [SceneMapA EXCEPT ![1].cta = TRUE]

CtaSceneMaps == {<<>>, SceneMapA, SceneMapB, SceneMapC, SceneMapD}

CtaLayouts == SegmentLayouts \cup MotionLayouts

CtaPlanHighlights ==
    PlanHighlightSets
    \cup {<<PlanHighlight("h01", "cta", 20000, 15000, <<"video">>)>>,
          <<PlanHighlight("h01", "CTA", 20000, 15000, <<"video">>)>>}

CtaMetas == {NoMeta, [NoMeta EXCEPT !.present = TRUE]}

InitCta ==
    /\ pc = "loaded"
    /\ \E layout \in CtaLayouts : segments = PlanSegments(layout, 0)
    /\ highlights \in CtaPlanHighlights
    /\ meta \in CtaMetas
    /\ prior = NoPlan
    /\ scene_map \in CtaSceneMaps
    /\ highlight_windows = <<>>
    /\ IdleNormalizer
    /\ IdleAssets

\* enrich_plan on the plan that enrich_plan returned.
EnrichPlanAgain ==
    /\ pc = "enriched"
    /\ outcome = "returned"
    /\ pc' = "enriched again"
    /\ prior' = ThePlan
    /\ \E result \in {enrich_plan(ThePlan, scene_map, BrollCatalog, BROLL_THRESHOLD,
                                       motion_rules)} :
           /\ segments' = result.segments
           /\ highlights' = result.highlights
           /\ meta' = result.meta
           /\ outcome' = result.outcome
    /\ UNCHANGED <<raw, ret, scene_map, highlight_windows, motion_rules, sfx_catalog>>

NextCta == EnrichPlan \/ EnrichPlanAgain

SpecCta == InitCta /\ [][NextCta]_vars

\* The highlights that enrich_plan added and that are no section cards.
InjectedCtas == Injected \ InjectedCards

\* The places of the highlights that carry the id of the injected CTA.
SubscribeCtas(hs) == {i \in 1..Len(hs) : hs[i].id = "cta_subscribe"}

\* The segments whose scene summary has the CTA flag.
FlaggedSegments == CtaCandidates(prior.segments, scene_map)

\* The start lies in the segment, to the centisecond.
AnchoredTo(segment, start) ==
    /\ start + 50 >= segment.sourceStart
    /\ start <= segment.sourceStart + segment.duration + 50

\* C23: enrich_plan injects a CTA highlight exactly when no highlight of the
\* plan looks like a CTA (an id that contains "cta", or the type cta) and a
\* segment's scene summary has the CTA flag; it injects one at most, of type
\* sectionTitle, in the last flagged segment, lasting 2.5 to 5.0 s; enrich_plan
\* on the plan it returned injects no other.
CtaInjectedOnce ==
    /\ pc = "enriched" =>
           /\ Cardinality(InjectedCtas) <= 1
           /\ (InjectedCtas # {}) <=>
                  /\ \A k \in 1..Len(prior.highlights) : ~LooksLikeCta(prior.highlights[k])
                  /\ FlaggedSegments # <<>>
           /\ \A i \in InjectedCtas :
                  /\ highlights[i].type = "sectionTitle"
                  /\ highlights[i].duration >= MIN_CTA_DURATION
                  /\ highlights[i].duration <= MAX_CTA_DURATION
                  /\ AnchoredTo(Last(FlaggedSegments), highlights[i].start)
    /\ pc = "enriched again" =>
           /\ InjectedCtas = {}
           /\ Cardinality(SubscribeCtas(highlights)) = Cardinality(SubscribeCtas(prior.highlights))

\* The first run injected a CTA for a plan with two flagged segments, and the
\* second run has returned.
CtaInjectedOnceWitness ==
    /\ pc = "enriched again" /\ outcome = "returned"
    /\ Len(FlaggedSegments) >= 2
    /\ \E i \in 1..Len(highlights) : highlights[i].id = "cta_subscribe"

(***************************************************************************)
(* SpecStrip: ensure_highlight_sfx and strip_non_section_sfx on plans of   *)
(* up to MaxStripHighlights highlights, note boxes and section titles,     *)
(* that carry nothing, a text that hits a rule, an sfx and gain of their   *)
(* own, or ducking, under every kind of metadata.                          *)
(***************************************************************************)
MaxStripHighlights == 2

\* No metadata, {}, a metadata that is no object, and the audio marks.
StripMetadata == {"none", "empty", "text", "auto", "keep", "accent", "manual"}
StripCarried == {"none", "rule", "sfx", "ducking"}
StripChoices == [type : {"noteBox", "sectionTitle"}, metadata : StripMetadata,
                 carried : StripCarried]
StripInputs == UNION {[1..n -> StripChoices] : n \in 1..MaxStripHighlights}

StripInput(i, c) ==
    [id |-> IdNames[i], type |-> c.type, start |-> 100000 * i, duration |-> 20000,
     numeric |-> TRUE, keyword |-> <<>>,
     text |-> IF c.carried = "rule" THEN <<"sweet", "clients">> ELSE <<"plan">>,
     importance |-> "", title |-> <<>>,
     sfx |-> IF c.carried = "sfx" THEN "assets/sfx/custom.mp3" ELSE "",
     hasGain |-> c.carried = "sfx", gain |-> IF c.carried = "sfx" THEN -400 ELSE 0,
     hasDucking |-> c.carried = "ducking", metadata |-> c.metadata]

InitStrip ==
    /\ pc = "motion"
    /\ segments = <<>>
    /\ \E input \in StripInputs :
           highlights = [i \in 1..Len(input) |-> StripInput(i, input[i])]
    /\ meta = NoMeta
    /\ prior = NoPlan
    /\ scene_map = <<>>
    /\ highlight_windows = <<>>
    /\ IdleNormalizer
    /\ IdleAssets

NextStrip == EnsureHighlightSfx \/ StripNonSectionSfx

SpecStrip == InitStrip /\ [][NextStrip]_vars

CarriesAudio(highlight) == highlight.sfx # "" \/ highlight.hasGain \/ highlight.hasDucking

\* C24: after strip_non_section_sfx every highlight that still carries sfx,
\* gain or ducking is a section title or has metadata.audio of auto, keep or
\* accent, and the pass leaves the section titles and the highlights so
\* marked as they were.
StripKeepsMarkedAudio ==
    pc = "stripped" =>
        /\ Len(highlights) = Len(prior.highlights)
        /\ \A i \in 1..Len(highlights) :
               /\ CarriesAudio(highlights[i]) =>
                      \/ highlights[i].type = "sectionTitle"
                      \/ highlights[i].metadata \in {"auto", "keep", "accent"}
               /\ (\/ prior.highlights[i].type = "sectionTitle"
                   \/ prior.highlights[i].metadata \in {"auto", "keep", "accent"}) =>
                      highlights[i] = prior.highlights[i]

\* The pass stripped a note box of the sfx that ensure_highlight_sfx gave it
\* under a metadata marked manual, and kept the sfx of a note box marked auto
\* by ensure_highlight_sfx.
StripKeepsMarkedAudioWitness ==
    /\ pc = "stripped"
    /\ \E i, j \in 1..Len(highlights) :
           /\ prior.highlights[i].type = "noteBox"
           /\ prior.highlights[i].metadata = "manual"
           /\ prior.highlights[i].sfx # ""
           /\ ~CarriesAudio(highlights[i])
           /\ highlights[j].type = "noteBox"
           /\ highlights[j].metadata = "auto"
           /\ highlights[j].sfx = "assets/sfx/emotion/applause.mp3"

(***************************************************************************)
(* SpecTitle: normalize_plan on raw plans of one section title whose id is *)
(* absent, h1 or s1 and whose title and text are drawn from texts of one   *)
(* or two words, descriptors of the rotation among them.                   *)
(***************************************************************************)
TitleWords == {"Launch", "launch", "EPIC", "the", "Summary", "Focus", "Spotlight"}
TitleLabels == {Absent} \cup {Text(<<a>>) : a \in TitleWords}
                        \cup {Text(<<a, b>>) : a, b \in TitleWords}
TitleTexts == {Absent, Text(<<"epic", "Recap">>), Text(<<"Focus">>)}
TitleIds == {Absent, Str("h1"), Str("s1")}
TitleTypes == {Str("sectionTitle"), Str("section")}

TitlePlans ==
    {[EmptyRawPlan EXCEPT !.highlights =
        <<[NoHighlightFields EXCEPT !.id = id, !.type = type, !.title = title,
                                    !.text = text, !.start = Num(10000),
                                    !.duration = Num(20000)]>>] :
        id \in TitleIds, type \in TitleTypes, title \in TitleLabels, text \in TitleTexts}

InitTitle ==
    /\ pc = "start"
    /\ IdlePlan
    /\ raw \in TitlePlans
    /\ ret = EmptyRawPlan
    /\ outcome = "none"

NextTitle == NormalizePlan

SpecTitle == InitTitle /\ [][NextTitle]_vars

\* The label a section title is built from: the title, or the text.
RawLabel(h) == Or(h.title, h.text)

\* C25: the text of a normalised section title is its base phrase followed by
\* a descriptor of the rotation, chosen by the hash of the highlight id, so it
\* never equals the raw label (title or text) it was built from.
SectionTextDiffersFromLabel ==
    (pc = "normalized" /\ outcome = "returned") =>
        \A i \in 1..Len(ret.highlights) :
            ret.highlights[i].type = Str("sectionTitle") =>
                /\ ret.highlights[i].text.w # RawLabel(raw.highlights[1]).w
                /\ Last(ret.highlights[i].text.w)
                       = SectionSuffix(ret.highlights[i].id.s)

(***************************************************************************)
(* SpecCue: ensure_motion_from_highlights on plans of three segments       *)
(* without a cue and three highlights, one in each segment, whose          *)
(* importance, keyword and animation are drawn from a grid; the rules      *)
(* allow a cue on every segment and name "overview" as zoom-out keyword.   *)
(***************************************************************************)
CueKeywords ==
    {<<"plan">>, <<"2024">>, <<"overview">>, <<"overview", "2024">>, <<"memory">>}
CueImportances == {"primary", "secondary", ""}
CueAnimations == {"", "fade"}
CueChoices == [importance : CueImportances, keyword : CueKeywords,
               animation : CueAnimations]

CueHighlight(i, c) ==
    [id |-> IdNames[i], type |-> "noteBox", start |-> 80000 * i - 40000,
     duration |-> 20000, numeric |-> TRUE, keyword |-> c.keyword, text |-> c.keyword,
     importance |-> c.importance, animation |-> c.animation]

CueRules == MotionRules(TRUE, 100)

InitCue ==
    /\ pc = "broll"
    /\ segments = MotionSegments(<<<<0, 80000>>, <<80000, 80000>>, <<160000, 80000>>>>, 0)
    /\ \E input \in [1..3 -> CueChoices] :
           highlights = [i \in 1..3 |-> CueHighlight(i, input[i])]
    /\ meta = NoMeta
    /\ prior = NoPlan
    /\ scene_map = <<>>
    /\ highlight_windows = <<>>
    /\ IdleNormalizer
    /\ motion_rules = CueRules
    /\ sfx_catalog = NoSfxCatalog

NextCue == EnsureMotionFromHighlights

SpecCue == InitCue /\ [][NextCue]_vars

HasWordOf(text, keywords) == \E i \in 1..Len(text) : text[i] \in keywords

\* The cue of a highlight by the order of the rules: zoom-out keyword after
\* a zoomIn, numeral, importance primary, keyword of the fixed list,
\* alternation.
CueByPriority(highlight, last_motion) ==
    IF HasWordOf(highlight.keyword, motion_rules.zoom_out_keywords)
       /\ last_motion = "zoomIn" THEN "zoomOut"
    ELSE IF \E i \in 1..Len(highlight.keyword) : HasDigit(highlight.keyword[i])
         THEN "zoomIn"
    ELSE IF highlight.importance = "primary"
         THEN (IF last_motion = "zoomIn" THEN "zoomOut" ELSE "zoomIn")
    ELSE IF HasWordOf(highlight.keyword, MOTION_ZOOM_IN_KEYWORDS) THEN "zoomIn"
    ELSE IF last_motion = "zoomIn" THEN "zoomOut" ELSE "zoomIn"

\* C26: ensure_motion_from_highlights decides the cue of each highlight, of
\* whatever importance, in this order: a zoom-out keyword while the previous
\* cue was zoomIn gives zoomOut; else a numeral gives zoomIn; else importance
\* primary gives the opposite of the previous cue, zoomIn when there is none;
\* else a keyword of the fixed list gives zoomIn; else the cue alternates from
\* the last one assigned.
CueFollowsPriority ==
    pc = "motion" =>
        \A k \in 1..Len(highlights) :
            segments[k].motionCue =
                CueByPriority(highlights[k],
                              IF k = 1 THEN "" ELSE segments[k - 1].motionCue)

\* The highlights have numeric starts that never decrease along the list.
StartsAscend(hs) ==
    /\ \A i \in 1..Len(hs) : hs[i].numeric
    /\ \A i \in 1..Len(hs) : \A j \in i..Len(hs) : hs[i].start <= hs[j].start

\* C27: the highlights of a plan are in ascending order of start after every
\* stage; here after enrich_plan on a plan whose highlights were in order,
\* including the runs that inject a CTA highlight and no section card.
EnrichKeepsOrder ==
    (pc = "enriched" /\ outcome = "returned" /\ StartsAscend(prior.highlights))
        => StartsAscend(highlights)

\* The runs that inject a CTA and no section card keep the order.
EnrichKeepsOrderWithCta ==
    (pc = "enriched" /\ outcome = "returned" /\ StartsAscend(prior.highlights)
     /\ InjectedCtas # {} /\ InjectedCards = {})
        => StartsAscend(highlights)

\* The room that a new highlight leaves the previous one: new.start - minGap
\* - previous.start.
RoomBefore(previous, new) == new.start - MIN_GAP - previous.start

\* Two numeric highlights of the same kind, the second starting inside the
\* first one's window plus the gap, with a room above 0.4 s and below
\* minDuration.
ShrinkCase(hs) ==
    /\ Len(hs) = 2
    /\ hs[1].numeric /\ hs[2].numeric
    /\ hs[1].start < hs[2].start
    /\ IsSection(hs[1]) = IsSection(hs[2])
    /\ hs[2].start < hs[1].start + Max(MIN_DURATION, hs[1].duration) + MIN_GAP
    /\ RoomBefore(hs[1], hs[2]) > SHRINK_ROOM
    /\ RoomBefore(hs[1], hs[2]) < MIN_DURATION

\* C28: in enforce_highlight_spacing, when the new and the previous highlight
\* are both section titles or both not, and the room new.start - minGap -
\* previous.start is above 0.4 s but below minDuration, the previous
\* highlight's duration is shrunk to that room and the new highlight is
\* accepted into the output.
ShrinkKeepsNew ==
    (pc = "spaced" /\ ShrinkCase(prior.highlights)) =>
        /\ Len(highlights) = 2
        /\ highlights[1].id = prior.highlights[1].id
        /\ highlights[2].id = prior.highlights[2].id
        /\ highlights[1].duration = RoomBefore(prior.highlights[1], prior.highlights[2])

\* In the shrink case the output holds the previous highlight alone, with the
\* duration minDuration.
ShrinkDropsNew ==
    (pc = "spaced" /\ ShrinkCase(prior.highlights)) =>
        /\ Len(highlights) = 1
        /\ highlights[1].id = prior.highlights[1].id
        /\ highlights[1].duration = MIN_DURATION

(***************************************************************************)
(* SpecWritten: the passes of main from enforce_highlight_spacing to       *)
(* strip_non_section_sfx, after which the plan is written.  A plan holds   *)
(* up to MaxWrittenHead highlights in its first seconds, which conflict or *)
(* not, and MAX_TOTAL_HIGHLIGHTS - 1 highlights one every 3 s from 30 s    *)
(* on, so that prune_highlights has highlights to remove; its segments end *)
(* at 60 s or at 69 s, so that trim_highlights_to_segments does as well.   *)
(***************************************************************************)
MaxWrittenHead == 2

WrittenTailLength == MAX_TOTAL_HIGHLIGHTS - 1

WrittenLayouts ==
    {<<<<0, 200000>>, <<200000, 200000>>, <<400000, 200000>>>>,
     <<<<0, 300000>>, <<300000, 300000>>, <<600000, 90000>>>>}

WrittenChoices == [type : {"noteBox", "sectionTitle"}, start : {100000, 105051, 120000},
                   carried : {"none", "sfx"}]

WrittenInputs == UNION {[1..n -> WrittenChoices] : n \in 0..MaxWrittenHead}

WrittenHead(i, c) ==
    [id |-> IdNames[i], type |-> c.type, start |-> c.start, duration |-> 30049,
     numeric |-> TRUE, keyword |-> <<"epic", "launch">>, text |-> <<"plan">>,
     importance |-> "primary", title |-> <<>>,
     sfx |-> IF c.carried = "sfx" THEN "assets/sfx/custom.mp3" ELSE "",
     hasGain |-> c.carried = "sfx", gain |-> IF c.carried = "sfx" THEN -400 ELSE 0,
     hasDucking |-> FALSE, metadata |-> "none"]

\* The k-th of the later highlights: the third carries a weak keyword, the
\* even ones a text that an SFX rule matches.
WrittenTail(n, k) ==
    [id |-> IdNames[n + k], type |-> "noteBox",
     start |-> (30 + 3 * (k - 1)) * TicksPerSecond, duration |-> 26000,
     numeric |-> TRUE,
     keyword |-> IF k = 3 THEN <<"day">> ELSE <<"epic", "launch">>,
     text |-> IF k % 2 = 0 THEN <<"sweet", "clients">> ELSE <<"plan">>,
     importance |-> "primary", title |-> <<>>, sfx |-> "", hasGain |-> FALSE,
     gain |-> 0, hasDucking |-> FALSE, metadata |-> "none"]

InitWritten ==
    /\ pc = "decorated"
    /\ \E layout \in WrittenLayouts : segments = MotionSegments(layout, 0)
    /\ \E input \in WrittenInputs :
           highlights = [i \in 1..(Len(input) + WrittenTailLength) |->
                            IF i <= Len(input) THEN WrittenHead(i, input[i])
                            ELSE WrittenTail(Len(input), i - Len(input))]
    /\ meta = NoMeta
    /\ prior = NoPlan
    /\ scene_map = <<>>
    /\ highlight_windows = <<>>
    /\ IdleNormalizer
    /\ motion_rules = MotionRules(TRUE, 50)
    /\ sfx_catalog = NoSfxCatalog

NextWritten ==
    \/ EnforceHighlightSpacing
    \/ PruneHighlights
    \/ TrimHighlightsToSegments
    \/ EnsureBrollFromHighlights
    \/ EnsureMotionFromHighlights
    \/ EnsureHighlightSfx
    \/ StripNonSectionSfx

SpecWritten == InitWritten /\ [][NextWritten]_vars

\* The id and the timing of a highlight.
Timing(highlight) == <<highlight.id, highlight.start, highlight.duration>>

\* The highlights `kept` are highlights of `hs`, in the order of `hs`, with
\* the start and the duration they have there.
RECURSIVE OnlyRemoved(_, _)
OnlyRemoved(kept, hs) ==
    IF kept = <<>> THEN TRUE
    ELSE IF hs = <<>> THEN FALSE
    ELSE IF Timing(Head(kept)) = Timing(Head(hs)) THEN OnlyRemoved(Tail(kept), Tail(hs))
    ELSE OnlyRemoved(kept, Tail(hs))

\* The passes of main that run after enforce_highlight_spacing have run.
AfterSpacing == {"pruned", "trimmed", "broll", "motion", "sfx", "stripped"}

\* C29: every pass that runs after enforce_highlight_spacing (prune_highlights,
\* trim_highlights_to_segments, ensure_broll_from_highlights,
\* ensure_motion_from_highlights, ensure_highlight_sfx, strip_non_section_sfx)
\* only removes highlights or edits fields that are no timing: it adds no
\* highlight and changes no start or duration; so any two highlights A before
\* B of the plan that is written satisfy B.start >= A.start + A.duration +
\* 0.2 s.
WrittenPlanIsSpaced ==
    /\ pc \in AfterSpacing => OnlyRemoved(highlights, prior.highlights)
    /\ pc \in AfterSpacing \cup {"spaced"} =>
           \A i, j \in 1..Len(highlights) :
               i < j => highlights[j].start >=
                           highlights[i].start + highlights[i].duration + MIN_GAP

\* A plan that is written after the spacing shortened its first highlight,
\* prune_highlights removed the highlight with the weak keyword and kept a
\* later one, trim_highlights_to_segments removed the highlights after the
\* last segment, and ensure_highlight_sfx gave a highlight a sound.
WrittenPlanIsSpacedWitness ==
    /\ pc = "stripped"
    /\ Len(highlights) > 2
    /\ Len(highlights) < MAX_TOTAL_HIGHLIGHTS
    /\ highlights[1].start = 100000 /\ highlights[1].duration = 18000
    /\ highlights[2].start = 120000
    /\ \A i \in 1..Len(highlights) : highlights[i].keyword # <<"day">>
    /\ \E i \in 1..Len(highlights) : highlights[i].start = 39 * TicksPerSecond
    /\ \E i \in 1..Len(highlights) : highlights[i].sfx # ""

\* The segment carried a motion cue when the plan was loaded.
LoadedWithCue(segment) ==
    \E k \in 1..Len(segment.notes) : segment.notes[k] = Note("keep", "")

\* C30: every motionCue that the pipeline leaves on a segment of the plan it
\* writes is zoomIn or zoomOut, whatever motion candidates the scene map
\* supplies and whether or not a highlight covers the segment.  The later
\* passes ensure_highlight_sfx and strip_non_section_sfx write no segment.
WrittenCuesAreZooms ==
    pc = "motion" =>
        \A i \in 1..Len(segments) :
            ~LoadedWithCue(segments[i]) =>
                segments[i].motionCue \in {"", "zoomIn", "zoomOut"}

====
